---- MODULE Spec2Model ----
(***************************************************************************)
(* Real-time layer of the rostra chat backend: the connection registry and *)
(* room broadcast (app/websocket/connection_manager.py), the protocol      *)
(* dispatcher (app/websocket/handlers.py), keyset pagination               *)
(* (app/crud/message.py, app/api/messages.py, app/utils/cursor.py) and the *)
(* unread-count cache (app/services/cache_service.py).                     *)
(*                                                                         *)
(* Every connection runs websocket_endpoint as its own asyncio task.  One  *)
(* action of the model is the code a task runs between two awaits: the     *)
(* effect of the await it issues is taken when it is issued, and any other *)
(* task may run before the task is resumed.                                *)
(***************************************************************************)
EXTENDS Integers, Sequences, FiniteSets, TLC

\* ------------------------------------------------------------- universe
Conns == {"c1", "c2", "c3"}            \* transports (WebSocket objects)
Users == {"u1", "u2", "u3", "u4"}
Rooms == {1, 2}                        \* rooms of the rooms table the frames address
RoomIds == Rooms \cup {3}              \* room_id values a frame can carry
NoConn == "none"
NoCursor == <<>>                       \* cursor: str | None = None
NULL == -1                             \* None / SQL NULL of a nullable column

\* the authenticated user of each transport (user_id_int of websocket_endpoint)
UserOf(c) == IF c = "c1" THEN "u1" ELSE "u2"

MAX_SUBSCRIPTIONS_PER_CONNECTION == 50
MAX_PER_MINUTE == 30
WINDOW_SECONDS == 60
MAX_PAGE_LIMIT == 100

\* an iterator over a set that was reshuffled by an insertion can yield a member
\* again; the model follows at most MaxDeliver sends to one transport within
\* one broadcast
MaxDeliver == 2
\* messages persisted in one behaviour
MaxMsgs == 3
\* clock ticks (half a second each) in one behaviour
MaxTicks == 1
\* largest page size the pager asks for
MaxLimit == 2
\* steps of half a rate-limit window the monotonic clock makes in one behaviour
MaxMonoTicks == 2
\* send_message frames of one user the limiter rejects within one window
MaxRejects == 2
MaxRows == 4
MaxAround == 2
MaxStamp == 2
MaxCursorId == 6

VARIABLES
    active_connections,   \* dict WebSocket -> user id
    room_subscriptions,   \* dict room id -> set of WebSocket
    message_counts,       \* _message_counts: dict user id -> (window_start, count)
    pc,                   \* where each connection's task is suspended
    cur,                  \* locals of the handler the task is in
    bc,                   \* the task's broadcast_to_room frame (set iterator, dead list)
    closed,               \* transports whose client has gone
    mono,                 \* time.monotonic(), in seconds
    rate_log,             \* per user: the send_message frames of the current 60 s of wall clock
    last_error,           \* the last error event a client received, and the frame it answers
    cleanups,             \* number of manager.disconnect calls made for the transport
    last_bc,              \* outcome of the broadcast_to_room call that returned last
    last_disc,            \* argument and result of the last manager.disconnect call
    messages,             \* messages table
    user_room,            \* user_room table: (user, room) -> last_read_at
    now,                  \* datetime.now(UTC), in microseconds
    redis,                \* unread hashes: user id -> (room id -> count)
    redis_up,             \* get_redis() returns a client
    redis_raises,         \* the commands of the client that raise at present
    last_counts,          \* the last get_unread_counts call and its result
    http,                 \* PATCH /rooms/{id}/read requests between their two awaits
    pg,                   \* a client following next_cursor through a room's messages
    cx,                   \* the context window a client fetched last
    codec,                \* the last encode_cursor or decode_cursor call
    resp                  \* the last request for messages and its response

connVars == <<active_connections, room_subscriptions, pc, cur, bc, cleanups, last_bc, last_disc>>
envVars == <<closed, message_counts, mono, rate_log, last_error>>
dbVars == <<messages, user_room, now>>
cacheVars == <<redis, redis_up, redis_raises, last_counts>>
httpVars == <<http, pg, cx, codec, resp>>
vars == <<connVars, envVars, dbVars, cacheVars, httpVars>>

\* ------------------------------------------------------------- dicts
DictDel(d, k) == [x \in (DOMAIN d) \ {k} |-> d[x]]
DictPut(d, k, v) == [x \in (DOMAIN d) \cup {k} |-> IF x = k THEN v ELSE d[x]]
DictGet(d, k, default) == IF k \in DOMAIN d THEN d[k] ELSE default
EmptyDict == [x \in {} |-> 0]
ZeroBag == [x \in Conns |-> 0]

\* ------------------------------------------------------------- ConnectionManager
connect(ac, ws, user_id) == DictPut(ac, ws, user_id)

\* fault: the transport leaves the live map but keeps its subscriptions
disconnect_keeps_rooms(ac, rs, ws) ==
    [active |-> DictDel(ac, ws), subs |-> rs, rooms |-> {r \in DOMAIN rs : ws \in rs[r]}]

\* fault: the rooms the transport was in are dropped with all their subscribers
disconnect_drops_rooms(ac, rs, ws) ==
    [active |-> DictDel(ac, ws),
     subs |-> [r \in {k \in DOMAIN rs : ws \notin rs[k]} |-> rs[r]],
     rooms |-> {r \in DOMAIN rs : ws \in rs[r]}]

disconnect(ac, rs, ws) ==
    LET rooms_user_was_in == {r \in DOMAIN rs : ws \in rs[r]}
        rooms_to_cleanup == {r \in rooms_user_was_in : rs[r] \ {ws} = {}}
    IN  [active |-> DictDel(ac, ws),
         subs |-> [r \in (DOMAIN rs) \ rooms_to_cleanup |-> rs[r] \ {ws}],
         rooms |-> rooms_user_was_in]

\* fault: one frame more than max_per_minute is admitted
check_message_rate_off_by_one(counts, user_id, t, max_per_minute) ==
    LET entry == DictGet(counts, user_id, <<t, 0>>)
        window_start == entry[1]
        count == entry[2]
    IN  IF t - window_start >= WINDOW_SECONDS
        THEN [ok |-> TRUE, counts |-> DictPut(counts, user_id, <<t, 1>>)]
        ELSE IF count > max_per_minute
        THEN [ok |-> FALSE, counts |-> counts]
        ELSE [ok |-> TRUE, counts |-> DictPut(counts, user_id, <<window_start, count + 1>>)]

\* fault: a rejected call restarts the window
check_message_rate_restarts(counts, user_id, t, max_per_minute) ==
    LET entry == DictGet(counts, user_id, <<t, 0>>)
        window_start == entry[1]
        count == entry[2]
    IN  IF t - window_start >= WINDOW_SECONDS
        THEN [ok |-> TRUE, counts |-> DictPut(counts, user_id, <<t, 1>>)]
        ELSE IF count >= max_per_minute
        THEN [ok |-> FALSE, counts |-> DictPut(counts, user_id, <<t, count>>)]
        ELSE [ok |-> TRUE, counts |-> DictPut(counts, user_id, <<window_start, count + 1>>)]

check_message_rate(counts, user_id, t, max_per_minute) ==
    LET entry == DictGet(counts, user_id, <<t, 0>>)
        window_start == entry[1]
        count == entry[2]
    IN  IF t - window_start >= WINDOW_SECONDS
        THEN [ok |-> TRUE, counts |-> DictPut(counts, user_id, <<t, 1>>)]
        ELSE IF count >= max_per_minute
        THEN [ok |-> FALSE, counts |-> counts]
        ELSE [ok |-> TRUE, counts |-> DictPut(counts, user_id, <<window_start, count + 1>>)]

\* subscribe_to_room with the class attribute MAX_SUBSCRIPTIONS_PER_CONNECTION as cap
subscribe_with_cap(rs, ws, room_id, cap) ==
    IF room_id \in DOMAIN rs /\ ws \in rs[room_id]
    THEN [ok |-> TRUE, subs |-> rs]
    ELSE IF Cardinality({r \in DOMAIN rs : ws \in rs[r]}) >= cap
    THEN [ok |-> FALSE, subs |-> rs]
    ELSE [ok |-> TRUE,
          subs |-> DictPut(rs, room_id, DictGet(rs, room_id, {}) \cup {ws})]

\* fault: the cap is checked before the test for an existing subscription
subscribe_counts_first(rs, ws, room_id) ==
    IF Cardinality({r \in DOMAIN rs : ws \in rs[r]}) >= MAX_SUBSCRIPTIONS_PER_CONNECTION
    THEN [ok |-> FALSE, subs |-> rs]
    ELSE [ok |-> TRUE,
          subs |-> DictPut(rs, room_id, DictGet(rs, room_id, {}) \cup {ws})]

subscribe_to_room(rs, ws, room_id) ==
    subscribe_with_cap(rs, ws, room_id, MAX_SUBSCRIPTIONS_PER_CONNECTION)

\* fault: the room's entry is kept when its last subscriber leaves
unsubscribe_keeps_entry(rs, ws, room_id) ==
    IF room_id \in DOMAIN rs THEN DictPut(rs, room_id, rs[room_id] \ {ws}) ELSE rs

unsubscribe_from_room(rs, ws, room_id) ==
    IF room_id \in DOMAIN rs
    THEN IF rs[room_id] \ {ws} = {}
         THEN DictDel(rs, room_id)
         ELSE DictPut(rs, room_id, rs[room_id] \ {ws})
    ELSE rs

\* fault: the dead transports are dropped but an emptied room keeps its entry
reap_dead_keeps_entry(rs, room_id, dead_connections) ==
    IF dead_connections = {} \/ room_id \notin DOMAIN rs
    THEN rs
    ELSE DictPut(rs, room_id, rs[room_id] \ dead_connections)

\* broadcast_to_room after its loop: drop the transports whose send failed
reap_dead(rs, room_id, dead_connections) ==
    IF dead_connections = {} \/ room_id \notin DOMAIN rs
    THEN rs
    ELSE IF rs[room_id] \ dead_connections = {}
         THEN DictDel(rs, room_id)
         ELSE DictPut(rs, room_id, rs[room_id] \ dead_connections)

\* user ids get_room_users resolves through the live-connection map
room_user_ids(ac, rs, room_id) ==
    IF room_id \notin DOMAIN rs THEN {}
    ELSE {ac[ws] : ws \in {w \in rs[room_id] : w \in DOMAIN ac}}

\* ------------------------------------------------------------- broadcast_to_room
\* `for connection in self.room_subscriptions[room_id]` iterates the live set
\* object.  The iterator remembers the set's size (used); remaining is what a
\* set nobody touched still has to yield.  A set changed under the iterator is
\* dirty: the next step raises RuntimeError when the size differs, and when the
\* size is back to what it was the iterator's position no longer means
\* anything, so it may yield any member or stop.  detached: the set object was
\* emptied and deleted from the dict (a later subscribe creates a new object).
BcIdle ==
    [active |-> FALSE, ctx |-> "none", room |-> 0, exclude |-> NoConn, used |-> 0,
     remaining |-> {}, dirty |-> FALSE, detached |-> FALSE, delivered |-> ZeroBag,
     failed |-> ZeroBag, snap |-> {}, pending |-> <<>>]

NewIter(ctx, room_id, exclude, pending, rs) ==
    [active |-> TRUE, ctx |-> ctx, room |-> room_id, exclude |-> exclude,
     used |-> Cardinality(rs[room_id]), remaining |-> rs[room_id] \ {exclude},
     dirty |-> FALSE, detached |-> FALSE, delivered |-> ZeroBag, failed |-> ZeroBag,
     snap |-> rs[room_id], pending |-> pending]

\* await connection.send_json(message) inside try/except: a failed send is
\* appended to dead_connections and the loop goes on
SendTo(it, x) ==
    IF closed[x]
    THEN [it EXCEPT !.failed[x] = @ + 1, !.remaining = @ \ {x}]
    ELSE [it EXCEPT !.delivered[x] = @ + 1, !.remaining = @ \ {x}]

DeadOf(it) == {x \in Conns : it.failed[x] > 0}

\* what a change of the registry from old to new does to a suspended iterator
IterAfter(it, old, new) ==
    IF ~it.active \/ it.detached \/ it.room \notin DOMAIN old THEN it
    ELSE IF it.room \notin DOMAIN new
    THEN [it EXCEPT !.detached = TRUE, !.dirty = TRUE, !.remaining = {}]
    ELSE IF new[it.room] = old[it.room] THEN it
    ELSE [it EXCEPT !.dirty = TRUE, !.remaining = {}]

Others(old, new) == [d \in Conns |-> IterAfter(bc[d], old, new)]

\* size of the set object the iterator holds
ObjSize(it, rs) ==
    IF it.detached \/ it.room \notin DOMAIN rs THEN 0 ELSE Cardinality(rs[it.room])

\* members the iterator can yield next (the excluded one is skipped without an await)
Candidates(it, rs) ==
    IF it.dirty
    THEN {x \in rs[it.room] \ {it.exclude} : it.delivered[x] + it.failed[x] < MaxDeliver}
    ELSE it.remaining

\* the iterator states after the first send of a broadcast started on rs
FirstSends(ctx, room_id, exclude, pending, rs) ==
    IF room_id \notin DOMAIN rs THEN {}
    ELSE {SendTo(NewIter(ctx, room_id, exclude, pending, rs), x) :
            x \in rs[room_id] \ {exclude}}

Outcome(c, room_id, exclude, snap, delivered, failed, raised, dirty, rsAfter) ==
    [by |-> c, room |-> room_id, exclude |-> exclude, snap |-> snap,
     delivered |-> delivered, failed |-> failed, raised |-> raised, dirty |-> dirty,
     present |-> room_id \in DOMAIN rsAfter,
     subs |-> IF room_id \in DOMAIN rsAfter THEN rsAfter[room_id] ELSE {}]

NoOutcome == Outcome(NoConn, 0, NoConn, {}, ZeroBag, ZeroBag, FALSE, FALSE, EmptyDict)

\* rooms_user_was_in is a list in dict order; the broadcasts for rooms nobody
\* is subscribed to return without an await, so only the order of the rooms
\* that still have subscribers matters
RECURSIVE SkipIdle(_, _)
SkipIdle(pending, rs) ==
    IF pending = <<>> THEN <<>>
    ELSE IF Head(pending) \in DOMAIN rs /\ rs[Head(pending)] # {} THEN pending
    ELSE SkipIdle(Tail(pending), rs)

Orders(S) == {s \in [1..Cardinality(S) -> S] : \A i, j \in DOMAIN s : i # j => s[i] # s[j]}

\* ------------------------------------------------------------- durable store
\* timestamps are microseconds since an epoch; Message.id is the table's serial
get_user_room(ur, user_id, room_id) == <<user_id, room_id>> \in DOMAIN ur

create_message(msgs, room_id, user_id, content, t) ==
    [id |-> Cardinality(msgs) + 1, room_id |-> room_id, user_id |-> user_id,
     content |-> content, created_at |-> t]

mark_room_read(ur, user_id, room_id, t) ==
    IF get_user_room(ur, user_id, room_id)
    THEN [ok |-> TRUE, user_room |-> [ur EXCEPT ![<<user_id, room_id>>] = t]]
    ELSE [ok |-> FALSE, user_room |-> ur]          \* raises ValueError

\* fault: a message created at the very time of the read marker counts as unread
get_unread_count_inclusive(msgs, ur, user_id, room_id) ==
    IF get_user_room(ur, user_id, room_id) /\ ur[<<user_id, room_id>>] # NULL
    THEN Cardinality({m \in msgs : m.room_id = room_id
                                    /\ m.created_at >= ur[<<user_id, room_id>>]})
    ELSE Cardinality({m \in msgs : m.room_id = room_id})

get_unread_count(msgs, ur, user_id, room_id) ==
    IF get_user_room(ur, user_id, room_id) /\ ur[<<user_id, room_id>>] # NULL
    THEN Cardinality({m \in msgs : m.room_id = room_id
                                    /\ m.created_at > ur[<<user_id, room_id>>]})
    ELSE Cardinality({m \in msgs : m.room_id = room_id})

\* ------------------------------------------------------------- UnreadCountCache
\* redis maps a user's key to its hash; a key without fields does not exist
HashOf(rd, user_id) == DictGet(rd, user_id, EmptyDict)

\* hset and expire are in one try block: when hset raises nothing is stored,
\* when expire raises the hash is stored (the model keeps no TTL, a hash may
\* expire at any time)
populate_from_db(rd, redis_client, raises, msgs, ur, user_id) ==
    LET memberships == {r \in Rooms : get_user_room(ur, user_id, r)}
        unread_counts == [r \in memberships |-> get_unread_count(msgs, ur, user_id, r)]
        h == HashOf(rd, user_id)
    IN  [counts |-> unread_counts,
         hit |-> FALSE,
         raised |-> FALSE,
         redis |-> IF redis_client /\ memberships # {} /\ "hset" \notin raises
                   THEN DictPut(rd, user_id,
                                [r \in (DOMAIN h) \cup memberships |->
                                    IF r \in memberships THEN unread_counts[r] ELSE h[r]])
                   ELSE rd]

\* fault: an error of hgetall leaves the function
get_unread_counts_unguarded(rd, up, raises, msgs, ur, user_id) ==
    IF ~up THEN populate_from_db(rd, FALSE, raises, msgs, ur, user_id)
    ELSE IF "hgetall" \in raises
    THEN [counts |-> EmptyDict, hit |-> FALSE, raised |-> TRUE, redis |-> rd]
    ELSE IF user_id \in DOMAIN rd
    THEN [counts |-> rd[user_id], hit |-> TRUE, raised |-> FALSE, redis |-> rd]
    ELSE populate_from_db(rd, TRUE, raises, msgs, ur, user_id)

get_unread_counts(rd, up, raises, msgs, ur, user_id) ==
    IF ~up THEN populate_from_db(rd, FALSE, raises, msgs, ur, user_id)
    ELSE IF "hgetall" \in raises                       \* except Exception
    THEN populate_from_db(rd, FALSE, raises, msgs, ur, user_id)
    ELSE IF user_id \in DOMAIN rd
    THEN [counts |-> rd[user_id], hit |-> TRUE, raised |-> FALSE, redis |-> rd]
    ELSE populate_from_db(rd, TRUE, raises, msgs, ur, user_id)

\* fault: the field is set to 1 instead of being incremented
increment_unread_sets_one(rd, up, raises, user_id, room_id) ==
    IF ~up \/ "hincrby" \in raises THEN rd
    ELSE DictPut(rd, user_id, DictPut(HashOf(rd, user_id), room_id, 1))

increment_unread(rd, up, raises, user_id, room_id) ==
    IF ~up \/ "hincrby" \in raises THEN rd
    ELSE DictPut(rd, user_id,
                 DictPut(HashOf(rd, user_id), room_id,
                         DictGet(HashOf(rd, user_id), room_id, 0) + 1))

reset_unread(rd, up, raises, user_id, room_id) ==
    IF ~up \/ "hset" \in raises THEN rd
    ELSE DictPut(rd, user_id, DictPut(HashOf(rd, user_id), room_id, 0))

\* ------------------------------------------------------------- cursors
\* datetime.isoformat() writes the fraction only when the microsecond is not 0;
\* a text is the sequence of its numeric fields
\* fault: isoformat(timespec="seconds")
isoformat_seconds(t) == <<t \div 1000000>>

isoformat(t) ==
    IF t % 1000000 = 0 THEN <<t \div 1000000>> ELSE <<t \div 1000000, t % 1000000>>

IsIsoformat(text) ==
    /\ Len(text) \in {1, 2}
    /\ text[1] >= 0
    /\ Len(text) = 2 => text[2] \in 0..999999

fromisoformat(text) == text[1] * 1000000 + (IF Len(text) = 2 THEN text[2] ELSE 0)

encode_cursor(created_at, message_id) ==
    <<"base64", <<"json", [created_at |-> isoformat(created_at), id |-> message_id]>>>>

\* raise ValueError(message)
ValueError(message) == [ok |-> FALSE, raises |-> "ValueError", error |-> message]

\* an exception that no except clause of decode_cursor names
Escapes(exception) == [ok |-> FALSE, raises |-> exception, error |-> exception]

\* a cursor string is <<"base64", payload>> when urlsafe_b64decode accepts it,
\* and the payload is <<"json", object>>, <<"number", n>>, <<"null">>,
\* <<"array", elements>> or, when json.loads rejects it, <<"text">>
decode_cursor(cursor) ==
    IF cursor = <<>> \/ cursor[1] # "base64" \/ cursor[2][1] = "text"
    THEN ValueError("Invalid cursor format")
    ELSE IF cursor[2][1] \in {"number", "null"}
    THEN Escapes("TypeError")       \* "created_at" not in 42
    ELSE IF cursor[2][1] = "array"
    THEN IF \A field \in {"created_at", "id"} : \E i \in DOMAIN cursor[2][2] : cursor[2][2][i] = field
         THEN ValueError("Invalid timestamp in cursor")   \* list indices must be integers
         ELSE ValueError("Cursor missing required fields (created_at, id)")
    ELSE LET cursor_data == cursor[2][2] IN
         IF "created_at" \notin DOMAIN cursor_data \/ "id" \notin DOMAIN cursor_data
         THEN ValueError("Cursor missing required fields (created_at, id)")
         ELSE IF ~IsIsoformat(cursor_data.created_at)
         THEN ValueError("Invalid timestamp in cursor")
         ELSE IF cursor_data.id <= 0
         THEN ValueError("Invalid message ID in cursor")
         ELSE [ok |-> TRUE, created_at |-> fromisoformat(cursor_data.created_at),
               id |-> cursor_data.id]

\* except ValueError: HTTP 400; anything else is the server's error
StatusOf(dec) == IF dec.raises = "ValueError" THEN 400 ELSE 500

\* ------------------------------------------------------------- keyset pagination
\* (m.created_at, m.id) < (created_at, id)
Older(m, created_at, id) ==
    \/ m.created_at < created_at
    \/ m.created_at = created_at /\ m.id < id

Newest(S) == CHOOSE m \in S : \A o \in S \ {m} : Older(o, m.created_at, m.id)

\* ORDER BY created_at DESC, id DESC
RECURSIVE OrderDesc(_)
OrderDesc(S) == IF S = {} THEN <<>> ELSE <<Newest(S)>> \o OrderDesc(S \ {Newest(S)})

Take(seq, n) == SubSeq(seq, 1, IF n < Len(seq) THEN n ELSE Len(seq))

\* fault: the cursor compares created_at only, without the id tie-break
get_messages_by_timestamp(msgs, room_id, limit, before_created_at, before_id) ==
    LET rows == {m \in msgs :
                    /\ m.room_id = room_id
                    /\ (before_created_at # NULL /\ before_id # NULL)
                          => m.created_at < before_created_at}
    IN  Take(OrderDesc(rows), limit)

get_messages_by_room(msgs, room_id, limit, before_created_at, before_id) ==
    LET rows == {m \in msgs :
                    /\ m.room_id = room_id
                    /\ (before_created_at # NULL /\ before_id # NULL)
                          => Older(m, before_created_at, before_id)}
    IN  Take(OrderDesc(rows), limit)

Refused(status) == [status |-> status, messages |-> <<>>, next_cursor |-> NoCursor]

\* fault: a page that is exactly full announces a further page
get_room_messages_full_page(msgs, ur, user_id, room_id, limit, cursor) ==
    IF room_id \notin Rooms THEN Refused(404)
    ELSE IF ~get_user_room(ur, user_id, room_id) THEN Refused(403)
    ELSE LET dec == IF cursor = NoCursor
                    THEN [ok |-> TRUE, created_at |-> NULL, id |-> NULL]
                    ELSE decode_cursor(cursor)
         IN  IF ~dec.ok THEN Refused(StatusOf(dec))
             ELSE LET fetched == get_messages_by_room(msgs, room_id, limit + 1,
                                                      dec.created_at, dec.id)
                      page == Take(fetched, limit)
                  IN  [status |-> 200, messages |-> page,
                       next_cursor |-> IF Len(fetched) >= limit /\ page # <<>>
                                       THEN encode_cursor(page[Len(page)].created_at,
                                                          page[Len(page)].id)
                                       ELSE NoCursor]

\* GET /rooms/{room_id}/messages
get_room_messages(msgs, ur, user_id, room_id, limit, cursor) ==
    IF room_id \notin Rooms THEN [status |-> 404, messages |-> <<>>, next_cursor |-> NoCursor]
    ELSE IF ~get_user_room(ur, user_id, room_id)
    THEN [status |-> 403, messages |-> <<>>, next_cursor |-> NoCursor]
    ELSE LET dec == IF cursor = NoCursor
                    THEN [ok |-> TRUE, created_at |-> NULL, id |-> NULL]
                    ELSE decode_cursor(cursor)
         IN  IF ~dec.ok THEN Refused(StatusOf(dec))
             ELSE LET fetched == get_messages_by_room(msgs, room_id, limit + 1,
                                                      dec.created_at, dec.id)
                      has_more == Len(fetched) > limit
                      page == IF has_more THEN Take(fetched, limit) ELSE fetched
                  IN  [status |-> 200, messages |-> page,
                       next_cursor |-> IF has_more /\ page # <<>>
                                       THEN encode_cursor(page[Len(page)].created_at,
                                                          page[Len(page)].id)
                                       ELSE NoCursor]

\* ------------------------------------------------------------- newer pages, context, search
\* (m.created_at, m.id) > (created_at, id)
Newer(m, created_at, id) ==
    \/ m.created_at > created_at
    \/ m.created_at = created_at /\ m.id > id

Oldest(S) == CHOOSE m \in S : \A o \in S \ {m} : Newer(o, m.created_at, m.id)

\* ORDER BY created_at ASC, id ASC
RECURSIVE OrderAsc(_)
OrderAsc(S) == IF S = {} THEN <<>> ELSE <<Oldest(S)>> \o OrderAsc(S \ {Oldest(S)})

\* reversed(older_desc)
Reversed(seq) == [i \in 1..Len(seq) |-> seq[Len(seq) + 1 - i]]

\* fault: the row the cursor names is returned again
get_messages_newer_or_equal(msgs, room_id, limit, after_created_at, after_id) ==
    LET rows == {m \in msgs :
                    /\ m.room_id = room_id
                    /\ (after_created_at # NULL /\ after_id # NULL)
                          => ~Older(m, after_created_at, after_id)}
    IN  Take(OrderAsc(rows), limit)

get_messages_newer_than(msgs, room_id, limit, after_created_at, after_id) ==
    LET rows == {m \in msgs :
                    /\ m.room_id = room_id
                    /\ (after_created_at # NULL /\ after_id # NULL)
                          => Newer(m, after_created_at, after_id)}
    IN  Take(OrderAsc(rows), limit)

\* scalar_one_or_none() of the row with this id in this room
get_message_in_room(msgs, room_id, message_id) ==
    {m \in msgs : m.room_id = room_id /\ m.id = message_id}

\* search_vector @@ plainto_tsquery('english', query): a content is one word,
\* and an empty query matches nothing
ts_match(content, query) == query # "" /\ content = query

\* q.strip()
strip(q) == IF q = " " THEN "" ELSE q

\* fault: the room filter is missing
search_messages_any_room(msgs, room_id, query, limit, before_created_at, before_id) ==
    LET rows == {m \in msgs :
                    /\ ts_match(m.content, query)
                    /\ (before_created_at # NULL /\ before_id # NULL)
                          => Older(m, before_created_at, before_id)}
    IN  Take(OrderDesc(rows), limit)

search_messages(msgs, room_id, query, limit, before_created_at, before_id) ==
    LET rows == {m \in msgs :
                    /\ m.room_id = room_id
                    /\ ts_match(m.content, query)
                    /\ (before_created_at # NULL /\ before_id # NULL)
                          => Older(m, before_created_at, before_id)}
    IN  Take(OrderDesc(rows), limit)

\* the page of limit rows cut from limit + 1 fetched rows, and its next_cursor
PageOf(fetched, limit) ==
    LET has_more == Len(fetched) > limit
        page == IF has_more THEN Take(fetched, limit) ELSE fetched
    IN  [status |-> 200, messages |-> page,
         next_cursor |-> IF has_more /\ page # <<>>
                         THEN encode_cursor(page[Len(page)].created_at, page[Len(page)].id)
                         ELSE NoCursor]

\* GET /rooms/{room_id}/messages/search
search_room_messages(msgs, ur, user_id, room_id, q, limit, cursor) ==
    IF room_id \notin Rooms THEN Refused(404)
    ELSE IF ~get_user_room(ur, user_id, room_id) THEN Refused(403)
    ELSE LET dec == IF cursor = NoCursor
                    THEN [ok |-> TRUE, created_at |-> NULL, id |-> NULL]
                    ELSE decode_cursor(cursor)
         IN  IF ~dec.ok THEN Refused(StatusOf(dec))
             ELSE IF strip(q) = "" THEN Refused(200)
             ELSE PageOf(search_messages(msgs, room_id, strip(q), limit + 1,
                                         dec.created_at, dec.id), limit)

\* fault: the membership check is missing
get_room_messages_newer_open(msgs, ur, user_id, room_id, limit, cursor) ==
    IF room_id \notin Rooms THEN Refused(404)
    ELSE LET dec == decode_cursor(cursor)
         IN  IF ~dec.ok THEN Refused(StatusOf(dec))
             ELSE PageOf(get_messages_newer_than(msgs, room_id, limit + 1,
                                                 dec.created_at, dec.id), limit)

\* GET /rooms/{room_id}/messages/newer: the cursor is required
get_room_messages_newer(msgs, ur, user_id, room_id, limit, cursor) ==
    IF room_id \notin Rooms THEN Refused(404)
    ELSE IF ~get_user_room(ur, user_id, room_id) THEN Refused(403)
    ELSE LET dec == decode_cursor(cursor)
         IN  IF ~dec.ok THEN Refused(StatusOf(dec))
             ELSE PageOf(get_messages_newer_than(msgs, room_id, limit + 1,
                                                 dec.created_at, dec.id), limit)

NoContext(status) ==
    [status |-> status, messages |-> <<>>, target_message_id |-> 0,
     older_cursor |-> NoCursor, newer_cursor |-> NoCursor]

CursorOf(m) == encode_cursor(m.created_at, m.id)

\* fault: both cursors are taken at the target instead of the window's edges
get_room_message_context_at_target(msgs, ur, user_id, room_id, message_id, before, after) ==
    IF room_id \notin Rooms THEN NoContext(404)
    ELSE IF ~get_user_room(ur, user_id, room_id) THEN NoContext(403)
    ELSE IF get_message_in_room(msgs, room_id, message_id) = {} THEN NoContext(404)
    ELSE LET target == CHOOSE m \in get_message_in_room(msgs, room_id, message_id) : TRUE
             older_desc == get_messages_by_room(msgs, room_id, before + 1,
                                                target.created_at, target.id)
             has_more_older == Len(older_desc) > before
             older_asc == Reversed(Take(older_desc, before))
             newer_all == get_messages_newer_than(msgs, room_id, after + 1,
                                                  target.created_at, target.id)
             has_more_newer == Len(newer_all) > after
             newer_asc == Take(newer_all, after)
             window_messages == older_asc \o <<target>> \o newer_asc
         IN  [status |-> 200, messages |-> window_messages,
              target_message_id |-> target.id,
              older_cursor |-> IF has_more_older THEN CursorOf(target) ELSE NoCursor,
              newer_cursor |-> IF has_more_newer THEN CursorOf(target) ELSE NoCursor]

\* GET /rooms/{room_id}/messages/{message_id}/context
get_room_message_context(msgs, ur, user_id, room_id, message_id, before, after) ==
    IF room_id \notin Rooms THEN NoContext(404)
    ELSE IF ~get_user_room(ur, user_id, room_id) THEN NoContext(403)
    ELSE IF get_message_in_room(msgs, room_id, message_id) = {} THEN NoContext(404)
    ELSE LET target == CHOOSE m \in get_message_in_room(msgs, room_id, message_id) : TRUE
             older_desc == get_messages_by_room(msgs, room_id, before + 1,
                                                target.created_at, target.id)
             has_more_older == Len(older_desc) > before
             older_asc == Reversed(Take(older_desc, before))
             newer_all == get_messages_newer_than(msgs, room_id, after + 1,
                                                  target.created_at, target.id)
             has_more_newer == Len(newer_all) > after
             newer_asc == Take(newer_all, after)
             window_messages == older_asc \o <<target>> \o newer_asc
         IN  [status |-> 200, messages |-> window_messages,
              target_message_id |-> target.id,
              older_cursor |-> IF has_more_older
                               THEN CursorOf(window_messages[1]) ELSE NoCursor,
              newer_cursor |-> IF has_more_newer
                               THEN CursorOf(window_messages[Len(window_messages)])
                               ELSE NoCursor]

\* ------------------------------------------------------------- the limiter seen from outside
\* rate_log keeps, for each user, the send_message frames of the 60 seconds of
\* wall clock that began with the first frame after the previous 60 seconds
\* were over: when they began, how many frames were admitted and rejected, the
\* transports they came over, transport, room and fate of the last one, and
\* whether the user had been rejected in the 60 seconds before
FreshWindow(log, user_id, t) ==
    user_id \notin DOMAIN log \/ t - log[user_id].start >= WINDOW_SECONDS

RejectsOf(log, user_id, t) ==
    IF FreshWindow(log, user_id, t) THEN 0 ELSE log[user_id].rejected

note_frame(log, user_id, ws, room_id, t, ok) ==
    DictPut(log, user_id,
        IF FreshWindow(log, user_id, t)
        THEN [start |-> t,
              admitted |-> IF ok THEN 1 ELSE 0,
              rejected |-> IF ok THEN 0 ELSE 1,
              conns |-> {ws}, by |-> ws, room |-> room_id, ok |-> ok,
              renewed |-> user_id \in DOMAIN log /\ log[user_id].rejected > 0]
        ELSE [log[user_id] EXCEPT
                 !.admitted = IF ok THEN @ + 1 ELSE @,
                 !.rejected = IF ok THEN @ ELSE @ + 1,
                 !.conns = @ \cup {ws}, !.by = ws, !.room = room_id, !.ok = ok])

\* ------------------------------------------------------------- websocket_endpoint
\* room, msg, todo: msg.room_id, db_message.id, the members still to be counted;
\* ok: what manager.subscribe_to_room returned (handle_subscribe discards it);
\* at: the await a cancelled task died in
\* steps: what handle_send_message has done so far for the frame, in order;
\* event: the type of the event the handler is broadcasting
CurIdle ==
    [room |-> 0, msg |-> 0, todo |-> {}, ok |-> TRUE, at |-> "none", steps |-> <<>>,
     event |-> "none", content |-> ""]
InRoom(room_id) == [CurIdle EXCEPT !.room = room_id]

\* the event the handler at pc[c] hands to broadcast_to_room
EventAt(c) ==
    CASE pc[c] = "sub_users" -> "user_joined"
      [] pc[c] = "unsub_reply" -> "user_left"
      [] pc[c] = "recv" -> "typing_indicator"
      [] OTHER -> "new_message"

\* the locals of a handler that is inside broadcast_to_room: the room and, for
\* send_message, the message the event carries
InBroadcast(c, room_id) ==
    [InRoom(room_id) EXCEPT !.msg = cur[c].msg,
                            !.event = EventAt(c),
                            !.steps = IF cur[c].steps = <<>> THEN <<>>
                                      ELSE Append(cur[c].steps, "broadcast")]

\* except Exception: manager.disconnect(websocket), nothing is broadcast
OnException(c, rs0, outcome) ==
    LET res == disconnect(active_connections, rs0, c) IN
    /\ active_connections' = res.active
    /\ room_subscriptions' = res.subs
    /\ cleanups' = [cleanups EXCEPT ![c] = @ + 1]
    /\ last_disc' = [ws |-> c, rooms |-> res.rooms, before |-> rs0, after |-> res.subs,
                     active_before |-> active_connections, active_after |-> res.active]
    /\ pc' = [pc EXCEPT ![c] = "done"]
    /\ cur' = [cur EXCEPT ![c] = CurIdle]
    /\ bc' = [Others(room_subscriptions, res.subs) EXCEPT ![c] = BcIdle]
    /\ last_bc' = outcome

\* except WebSocketDisconnect: manager.disconnect(websocket), then user_left is
\* broadcast to each room the connection was in
OnWebSocketDisconnect(c, rs0) ==
    LET res == disconnect(active_connections, rs0, c) IN
    /\ active_connections' = res.active
    /\ room_subscriptions' = res.subs
    /\ cleanups' = [cleanups EXCEPT ![c] = @ + 1]
    /\ last_disc' = [ws |-> c, rooms |-> res.rooms, before |-> rs0, after |-> res.subs,
                     active_before |-> active_connections, active_after |-> res.active]
    /\ cur' = [cur EXCEPT ![c] = CurIdle]
    /\ last_bc' = last_bc
    /\ \E order \in Orders(res.rooms \cap DOMAIN res.subs) :
         LET pending == SkipIdle(order, res.subs) IN
         IF pending = <<>>
         THEN /\ pc' = [pc EXCEPT ![c] = "done"]
              /\ bc' = [Others(room_subscriptions, res.subs) EXCEPT ![c] = BcIdle]
         ELSE \E it \in FirstSends("leave", Head(pending), NoConn, Tail(pending), res.subs) :
                /\ pc' = [pc EXCEPT ![c] = "bcast"]
                /\ bc' = [Others(room_subscriptions, res.subs) EXCEPT ![c] = it]

\* a send to the task's own transport failed: starlette raises WebSocketDisconnect
\* or RuntimeError, depending on how the transport went away
ReplyFailed(c, rs0) ==
    \/ OnWebSocketDisconnect(c, rs0)
    \/ OnException(c, rs0, last_bc)

\* a handler calls manager.broadcast_to_room on the registry rs0 it leaves behind
BeginBroadcast(c, room_id, exclude, rs0) ==
    LET opts == FirstSends("handler", room_id, exclude, <<>>, rs0) IN
    /\ room_subscriptions' = rs0
    /\ UNCHANGED <<active_connections, cleanups, last_disc>>
    /\ IF opts = {}
       THEN /\ pc' = [pc EXCEPT ![c] = "recv"]
            /\ cur' = [cur EXCEPT ![c] = CurIdle]
            /\ bc' = [Others(room_subscriptions, rs0) EXCEPT ![c] = BcIdle]
            /\ last_bc' = Outcome(c, room_id, exclude, DictGet(rs0, room_id, {}),
                                  ZeroBag, ZeroBag, FALSE, FALSE, rs0)
       ELSE \E it \in opts :
            /\ pc' = [pc EXCEPT ![c] = "bcast"]
            /\ cur' = [cur EXCEPT ![c] = InBroadcast(c, room_id)]
            /\ bc' = [Others(room_subscriptions, rs0) EXCEPT ![c] = it]
            /\ last_bc' = last_bc

send_error(c) ==
    IF closed[c] THEN ReplyFailed(c, room_subscriptions) ELSE UNCHANGED connVars

\* the error event as the client sees it; a behaviour that starts with
\* last_error = Unwatched does not follow the error events
NoError == [to |-> NoConn, action |-> "none", room |-> 0]
Unwatched == [to |-> NoConn, action |-> "unwatched", room |-> 0]

note_error(c, action, room_id) ==
    IF last_error = Unwatched \/ closed[c] THEN last_error
    ELSE [to |-> c, action |-> action, room |-> room_id]

\* websocket in manager.room_subscriptions.get(room_id, set())
IsSubscribed(rs, ws, room_id) == room_id \in DOMAIN rs /\ ws \in rs[room_id]

\* manager.connect: accept, then register
Connect(c) ==
    /\ pc[c] = "new"
    /\ active_connections' = connect(active_connections, c, UserOf(c))
    /\ pc' = [pc EXCEPT ![c] = "recv"]
    /\ UNCHANGED <<room_subscriptions, cur, bc, cleanups, last_bc, last_disc>>
    /\ UNCHANGED <<envVars, dbVars, cacheVars, httpVars>>

\* the client goes away
ClientClose(c) ==
    /\ pc[c] \notin {"new", "done", "cancelled"}
    /\ ~closed[c]
    /\ closed' = [closed EXCEPT ![c] = TRUE]
    /\ UNCHANGED <<message_counts, mono, rate_log, last_error, connVars, dbVars, cacheVars,
                   httpVars>>

\* the task is cancelled at the await it is suspended in: CancelledError is a
\* BaseException, neither except clause of websocket_endpoint catches it.
\* cur[c].at keeps the await the task died in.
Cancel(c) ==
    /\ pc[c] \notin {"new", "done", "cancelled"}
    /\ pc' = [pc EXCEPT ![c] = "cancelled"]
    /\ bc' = [bc EXCEPT ![c] = BcIdle]
    /\ cur' = [cur EXCEPT ![c].at = pc[c]]
    /\ UNCHANGED <<active_connections, room_subscriptions, cleanups, last_bc, last_disc>>
    /\ UNCHANGED <<envVars, dbVars, cacheVars, httpVars>>

\* fault: the cleanup forgets the user's rate-limit state
RecvDisconnect_forgets_rate(c) ==
    /\ pc[c] = "recv"
    /\ closed[c]
    /\ OnWebSocketDisconnect(c, room_subscriptions)
    /\ message_counts' = DictDel(message_counts, UserOf(c))
    /\ UNCHANGED <<closed, mono, rate_log, last_error, dbVars, cacheVars, httpVars>>

\* receive_json raises WebSocketDisconnect; frames the client sent before it
\* went away are still received
RecvDisconnect(c) ==
    /\ pc[c] = "recv"
    /\ closed[c]
    /\ OnWebSocketDisconnect(c, room_subscriptions)
    /\ UNCHANGED <<envVars, dbVars, cacheVars, httpVars>>

\* fault: the room is looked up, the membership is not
RecvSubscribe_any_member(c, room_id) ==
    /\ pc[c] = "recv"
    /\ IF room_id \in Rooms
       THEN /\ pc' = [pc EXCEPT ![c] = "sub_checked"]
            /\ cur' = [cur EXCEPT ![c] = InRoom(room_id)]
            /\ UNCHANGED <<active_connections, room_subscriptions, bc, cleanups,
                           last_bc, last_disc, last_error>>
       ELSE /\ send_error(c)
            /\ last_error' = note_error(c, "subscribe", room_id)
    /\ UNCHANGED <<closed, message_counts, mono, rate_log, dbVars, cacheVars, httpVars>>

\* {"action": "subscribe"}: handle_subscribe up to its room and membership lookups
RecvSubscribe(c, room_id) ==
    /\ pc[c] = "recv"
    /\ IF room_id \in Rooms /\ get_user_room(user_room, UserOf(c), room_id)
       THEN /\ pc' = [pc EXCEPT ![c] = "sub_checked"]
            /\ cur' = [cur EXCEPT ![c] = InRoom(room_id)]
            /\ UNCHANGED <<active_connections, room_subscriptions, bc, cleanups,
                           last_bc, last_disc, last_error>>
       ELSE /\ send_error(c)
            /\ last_error' = note_error(c, "subscribe", room_id)
    /\ UNCHANGED <<closed, message_counts, mono, rate_log, dbVars, cacheVars, httpVars>>

\* handle_subscribe: manager.subscribe_to_room, then await manager.get_room_users
SubscribeApply(c) ==
    /\ pc[c] = "sub_checked"
    /\ LET res == subscribe_to_room(room_subscriptions, c, cur[c].room) IN
       /\ room_subscriptions' = res.subs
       /\ bc' = Others(room_subscriptions, res.subs)
       /\ cur' = [cur EXCEPT ![c].ok = res.ok]
    /\ pc' = [pc EXCEPT ![c] = "sub_users"]
    /\ UNCHANGED <<active_connections, cleanups, last_bc, last_disc>>
    /\ UNCHANGED <<envVars, dbVars, cacheVars, httpVars>>

\* handle_subscribe: send "subscribed", then broadcast user_joined to the others
SubscribeReply(c) ==
    /\ pc[c] = "sub_users"
    /\ IF closed[c]
       THEN ReplyFailed(c, room_subscriptions)
       ELSE BeginBroadcast(c, cur[c].room, c, room_subscriptions)
    /\ UNCHANGED <<envVars, dbVars, cacheVars, httpVars>>

\* {"action": "unsubscribe"}: handle_unsubscribe up to its send of "unsubscribed";
\* ok: discard found the connection in the room's set
RecvUnsubscribe(c, room_id) ==
    /\ pc[c] = "recv"
    /\ LET rs1 == unsubscribe_from_room(room_subscriptions, c, room_id) IN
       /\ room_subscriptions' = rs1
       /\ bc' = Others(room_subscriptions, rs1)
    /\ pc' = [pc EXCEPT ![c] = "unsub_reply"]
    /\ cur' = [cur EXCEPT ![c] = [InRoom(room_id) EXCEPT
                                     !.ok = IsSubscribed(room_subscriptions, c, room_id)]]
    /\ UNCHANGED <<active_connections, cleanups, last_bc, last_disc>>
    /\ UNCHANGED <<envVars, dbVars, cacheVars, httpVars>>

\* handle_unsubscribe: the reply was sent (or failed), then user_left is broadcast
UnsubscribeNotify(c) ==
    /\ pc[c] = "unsub_reply"
    /\ IF closed[c]
       THEN ReplyFailed(c, room_subscriptions)
       ELSE BeginBroadcast(c, cur[c].room, NoConn, room_subscriptions)
    /\ UNCHANGED <<envVars, dbVars, cacheVars, httpVars>>

\* fault: the typing indicator is broadcast without the subscription check
RecvTyping_unchecked(c, room_id) ==
    /\ pc[c] = "recv"
    /\ BeginBroadcast(c, room_id, c, room_subscriptions)
    /\ UNCHANGED <<envVars, dbVars, cacheVars, httpVars>>

\* fault: the typing indicator is re-validated against the user_room table
RecvTyping_revalidated(c, room_id) ==
    /\ pc[c] = "recv"
    /\ IF /\ room_id \in DOMAIN room_subscriptions /\ c \in room_subscriptions[room_id]
          /\ get_user_room(user_room, UserOf(c), room_id)
       THEN /\ BeginBroadcast(c, room_id, c, room_subscriptions)
            /\ UNCHANGED last_error
       ELSE /\ send_error(c)
            /\ last_error' = note_error(c, "user_typing", room_id)
    /\ UNCHANGED <<closed, message_counts, mono, rate_log, dbVars, cacheVars, httpVars>>

\* {"action": "user_typing"}
RecvTyping(c, room_id) ==
    /\ pc[c] = "recv"
    /\ IF room_id \in DOMAIN room_subscriptions /\ c \in room_subscriptions[room_id]
       THEN /\ BeginBroadcast(c, room_id, c, room_subscriptions)
            /\ UNCHANGED last_error
       ELSE /\ send_error(c)
            /\ last_error' = note_error(c, "user_typing", room_id)
    /\ UNCHANGED <<closed, message_counts, mono, rate_log, dbVars, cacheVars, httpVars>>

\* fault: a frame with an unknown action is counted by the limiter
RecvUnknown_counted(c) ==
    /\ pc[c] = "recv"
    /\ send_error(c)
    /\ last_error' = note_error(c, "unknown", 0)
    /\ message_counts' = check_message_rate(message_counts, UserOf(c), mono,
                                            MAX_PER_MINUTE).counts
    /\ UNCHANGED <<closed, mono, rate_log, dbVars, cacheVars, httpVars>>

\* any other action: send_error "Unknown action"
RecvUnknown(c) ==
    /\ pc[c] = "recv"
    /\ send_error(c)
    /\ last_error' = note_error(c, "unknown", 0)
    /\ UNCHANGED <<closed, message_counts, mono, rate_log, dbVars, cacheVars, httpVars>>

\* a frame whose payload fails the schema of its action (WSSubscribe,
\* WSUnsubscribe, WSUserTyping): ValidationError, send_error, return
Validated == {"subscribe", "unsubscribe", "user_typing"}

RecvInvalid(c, action) ==
    /\ pc[c] = "recv"
    /\ action \in Validated
    /\ send_error(c)
    /\ last_error' = note_error(c, action, 0)
    /\ UNCHANGED <<closed, message_counts, mono, rate_log, dbVars, cacheVars, httpVars>>

\* a frame that is not JSON, or JSON that is not an object: json.loads inside
\* receive_json raises JSONDecodeError, data.get raises AttributeError; both
\* reach except Exception
RecvMalformed(c) ==
    /\ pc[c] = "recv"
    /\ OnException(c, room_subscriptions, last_bc)
    /\ UNCHANGED <<envVars, dbVars, cacheVars, httpVars>>

\* broadcast_to_room resumed after a send: the next step of the for loop, or
\* the code after the loop
BroadcastStep(c) ==
    /\ pc[c] = "bcast"
    /\ UNCHANGED <<envVars, dbVars, cacheVars, httpVars>>
    /\ LET it == bc[c]
           rs == room_subscriptions
       IN  IF ObjSize(it, rs) # it.used
           THEN \* RuntimeError: Set changed size during iteration
                LET out == Outcome(c, it.room, it.exclude, it.snap, it.delivered,
                                   it.failed, TRUE, TRUE, rs)
                IN  IF it.ctx = "handler"
                    THEN OnException(c, rs, out)
                    ELSE /\ pc' = [pc EXCEPT ![c] = "done"]
                         /\ bc' = [bc EXCEPT ![c] = BcIdle]
                         /\ last_bc' = out
                         /\ UNCHANGED <<active_connections, room_subscriptions, cur,
                                        cleanups, last_disc>>
           ELSE \/ \E x \in Candidates(it, rs) :
                     /\ bc' = [bc EXCEPT ![c] = SendTo(it, x)]
                     /\ UNCHANGED <<active_connections, room_subscriptions, pc, cur,
                                    cleanups, last_bc, last_disc>>
                \/ /\ it.dirty \/ Candidates(it, rs) = {}
                   /\ LET rs1 == reap_dead(rs, it.room, DeadOf(it))
                          pending == SkipIdle(it.pending, rs1)
                      IN  /\ room_subscriptions' = rs1
                          /\ last_bc' = Outcome(c, it.room, it.exclude, it.snap,
                                                it.delivered, it.failed, FALSE,
                                                it.dirty, rs1)
                          /\ cur' = [cur EXCEPT ![c] = CurIdle]
                          /\ UNCHANGED <<active_connections, cleanups, last_disc>>
                          /\ IF it.ctx = "handler"
                             THEN /\ pc' = [pc EXCEPT ![c] = "recv"]
                                  /\ bc' = [Others(rs, rs1) EXCEPT ![c] = BcIdle]
                             ELSE IF pending = <<>>
                             THEN /\ pc' = [pc EXCEPT ![c] = "done"]
                                  /\ bc' = [Others(rs, rs1) EXCEPT ![c] = BcIdle]
                             ELSE \E nxt \in FirstSends("leave", Head(pending), NoConn,
                                                        Tail(pending), rs1) :
                                    /\ pc' = pc
                                    /\ bc' = [Others(rs, rs1) EXCEPT ![c] = nxt]

\* ------------------------------------------------------------- the registry under its handlers
Tasks == {"c1", "c2"}

NoDisconnect ==
    [ws |-> NoConn, rooms |-> {}, before |-> EmptyDict, after |-> EmptyDict,
     active_before |-> EmptyDict, active_after |-> EmptyDict]

Membership ==
    [p \in {<<"u1", 1>>, <<"u2", 1>>, <<"u3", 1>>, <<"u1", 2>>, <<"u4", 2>>} |-> NULL]

NoCounts ==
    [user |-> "none", hit |-> FALSE, raised |-> FALSE, up |-> TRUE, raises |-> {},
     returned |-> EmptyDict, cached |-> EmptyDict, stored |-> EmptyDict,
     counts |-> EmptyDict, durable |-> EmptyDict,
     settled |-> TRUE, answered |-> {}, fresh |-> {}]
PgIdle ==
    [phase |-> "idle", user |-> "u1", room |-> 0, limit |-> 0, cursor |-> NoCursor,
     pages |-> <<>>, first |-> {}, fetches |-> 0,
     kind |-> "older", query |-> "", start |-> NoCursor]
CodecIdle ==
    [call |-> "none", created_at |-> NULL, id |-> NULL, cursor |-> NoCursor,
     out |-> [ok |-> TRUE, created_at |-> NULL, id |-> NULL]]
NoRequest ==
    [kind |-> "none", user |-> "u1", room |-> 0, cursor |-> NoCursor, target |-> 0,
     status |-> 0, messages |-> <<>>]
CxIdle ==
    [phase |-> "idle", room |-> 0, target |-> 0, before |-> 0, after |-> 0,
     messages |-> <<>>, older_cursor |-> NoCursor, newer_cursor |-> NoCursor, first |-> {}]

InitStore ==
    /\ messages = {}
    /\ user_room = Membership
    /\ now = 0
    /\ redis = EmptyDict
    /\ redis_up = TRUE
    /\ redis_raises = {}
    /\ last_counts = NoCounts
    /\ http = [u \in Users |-> 0]
    /\ pg = PgIdle
    /\ cx = CxIdle
    /\ codec = CodecIdle
    /\ resp = NoRequest

InitTasks ==
    /\ message_counts = EmptyDict
    /\ rate_log = EmptyDict
    /\ last_error = Unwatched
    /\ mono = 0
    /\ cur = [c \in Conns |-> CurIdle]
    /\ bc = [c \in Conns |-> BcIdle]
    /\ cleanups = [c \in Conns |-> 0]
    /\ last_bc = NoOutcome
    /\ last_disc = NoDisconnect

Init ==
    /\ active_connections = EmptyDict
    /\ room_subscriptions = EmptyDict
    /\ pc = [c \in Conns |-> "new"]
    /\ closed = [c \in Conns |-> FALSE]
    /\ InitTasks
    /\ InitStore

Next ==
    \E c \in Tasks :
        \/ Connect(c)
        \/ ClientClose(c)
        \/ Cancel(c)
        \/ RecvDisconnect(c)
        \/ \E r \in RoomIds : RecvSubscribe(c, r)
        \/ SubscribeApply(c)
        \/ SubscribeReply(c)
        \/ \E r \in RoomIds : RecvUnsubscribe(c, r)
        \/ UnsubscribeNotify(c)
        \/ \E r \in RoomIds : RecvTyping(c, r)
        \/ RecvUnknown(c)
        \/ BroadcastStep(c)

Spec == Init /\ [][Next]_vars

\* a long-lived connection that is one subscription below the cap: c1 holds
\* the rooms 4..52, where nobody else is
FillerRooms == 4..(MAX_SUBSCRIPTIONS_PER_CONNECTION + 2)

InitCap ==
    /\ active_connections = connect(EmptyDict, "c1", UserOf("c1"))
    /\ room_subscriptions = [r \in FillerRooms |-> {"c1"}]
    /\ pc = [c \in Conns |-> IF c = "c1" THEN "recv" ELSE "new"]
    /\ closed = [c \in Conns |-> FALSE]
    /\ InitTasks
    /\ InitStore

SpecCap == InitCap /\ [][Next]_vars

\* ------------------------------------------------------------- one caller on any registry
\* every registry three live transports can have built, with any of the other
\* two clients already gone; only c1's task runs, so nothing changes a room's
\* set while c1 broadcasts to it
Registries ==
    {rs \in UNION {[D -> (SUBSET Conns) \ {{}}] : D \in SUBSET Rooms} : TRUE}

InitSolo ==
    /\ active_connections = [c \in Conns |-> UserOf(c)]
    /\ room_subscriptions \in Registries
    /\ pc = [c \in Conns |-> "recv"]
    /\ closed \in {f \in [Conns -> BOOLEAN] : ~f["c1"]}
    /\ InitTasks
    /\ InitStore

NextSolo ==
    \/ \E c \in Conns : ClientClose(c)
    \/ RecvDisconnect("c1")
    \/ \E r \in RoomIds : RecvSubscribe("c1", r)
    \/ SubscribeApply("c1")
    \/ SubscribeReply("c1")
    \/ \E r \in RoomIds : RecvUnsubscribe("c1", r)
    \/ UnsubscribeNotify("c1")
    \/ \E r \in RoomIds : RecvTyping("c1", r)
    \/ RecvUnknown("c1")
    \/ BroadcastStep("c1")

SpecSolo == InitSolo /\ [][NextSolo]_vars

\* ------------------------------------------------------------- history paging
\* the wall clock moves on; two messages persisted between two ticks get the
\* same created_at
Tick ==
    /\ now < MaxTicks * 500000
    /\ now' = now + 500000
    /\ UNCHANGED <<messages, user_room, connVars, envVars, cacheVars, httpVars>>

\* POST /messages: room and membership checks, then crud create_message
PostMessage(user_id, room_id) ==
    /\ Cardinality(messages) < MaxMsgs
    /\ room_id \in Rooms
    /\ get_user_room(user_room, user_id, room_id)
    /\ messages' = messages \cup {create_message(messages, room_id, user_id, "text", now)}
    /\ UNCHANGED <<user_room, now, connVars, envVars, cacheVars, httpVars>>

\* the endpoint a paging client calls
fetch_page(msgs, ur, p, cursor) ==
    CASE p.kind = "older" ->
           get_room_messages(msgs, ur, p.user, p.room, p.limit, cursor)
      [] p.kind = "newer" ->
           get_room_messages_newer(msgs, ur, p.user, p.room, p.limit, cursor)
      [] OTHER ->
           search_room_messages(msgs, ur, p.user, p.room, p.query, p.limit, cursor)

\* the rows of msgs a listing ranges over: the room's rows on the asked side of
\* the starting cursor
Wanted(msgs, p) ==
    LET dec == IF p.start = NoCursor THEN [created_at |-> NULL, id |-> NULL]
               ELSE decode_cursor(p.start)
    IN  {m \in msgs :
           /\ m.room_id = p.room
           /\ (p.kind = "older" /\ p.start # NoCursor) => Older(m, dec.created_at, dec.id)
           /\ p.kind = "newer" => Newer(m, dec.created_at, dec.id)}

\* a client's first request: kind of listing, room, page size, search text and
\* the cursor it starts from
PageStart(kind, room_id, limit, q, cursor) ==
    /\ pg.phase = "idle"
    /\ LET p == [pg EXCEPT !.kind = kind, !.room = room_id, !.limit = limit,
                           !.query = q, !.start = cursor]
           res == fetch_page(messages, user_room, p, cursor)
       IN  /\ res.status = 200
           /\ pg' = [p EXCEPT !.phase = IF res.next_cursor = NoCursor THEN "done" ELSE "paging",
                              !.cursor = res.next_cursor,
                              !.pages = res.messages,
                              !.first = Wanted(messages, p),
                              !.fetches = 1]
    /\ UNCHANGED <<http, cx, codec, resp, connVars, envVars, dbVars, cacheVars>>

\* a client asks for the newest page of a room, without a cursor
PageFirst(room_id, limit) == PageStart("older", room_id, limit, "", NoCursor)

\* the client follows next_cursor
PageNext ==
    /\ pg.phase = "paging"
    /\ LET res == fetch_page(messages, user_room, pg, pg.cursor) IN
       /\ res.status = 200
       /\ pg' = [pg EXCEPT !.phase = IF res.next_cursor = NoCursor THEN "done" ELSE "paging",
                           !.cursor = res.next_cursor,
                           !.pages = @ \o res.messages,
                           !.fetches = @ + 1]
    /\ UNCHANGED <<http, cx, codec, resp, connVars, envVars, dbVars, cacheVars>>

InitPage ==
    /\ active_connections = EmptyDict
    /\ room_subscriptions = EmptyDict
    /\ pc = [c \in Conns |-> "new"]
    /\ closed = [c \in Conns |-> FALSE]
    /\ InitTasks
    /\ InitStore

NextPage ==
    \/ Tick
    \/ \E u \in Users, r \in Rooms : PostMessage(u, r)
    \/ \E r \in Rooms, limit \in 1..MaxLimit : PageFirst(r, limit)
    \/ PageNext

SpecPage == InitPage /\ [][NextPage]_vars

\* ------------------------------------------------------------- listings read by cursor
Contents == {"apple", "pear"}
Queries == {"apple", " "}

\* POST /messages with a content of the client's choice
PostText(user_id, room_id, content) ==
    /\ Cardinality(messages) < MaxRows
    /\ room_id \in Rooms
    /\ get_user_room(user_room, user_id, room_id)
    /\ messages' = messages \cup {create_message(messages, room_id, user_id, content, now)}
    /\ UNCHANGED <<user_room, now, connVars, envVars, cacheVars, httpVars>>

\* the cursors a client can hold: any position a row can have
Cursors == {encode_cursor(t, id) : t \in {0, 500000}, id \in 1..MaxRows}

NextRead ==
    \/ Tick
    \/ \E r \in Rooms, content \in Contents : PostText("u1", r, content)
    \/ \E limit \in 1..MaxLimit, cursor \in Cursors \cup {NoCursor} :
          PageStart("older", 1, limit, "", cursor)
    \/ \E limit \in 1..MaxLimit, cursor \in Cursors :
          PageStart("newer", 1, limit, "", cursor)
    \/ \E limit \in 1..MaxLimit, q \in Queries :
          PageStart("search", 1, limit, q, NoCursor)
    \/ PageNext

SpecRead == InitPage /\ [][NextRead]_vars

\* ------------------------------------------------------------- cursors as strings
\* timestamps with and without a fraction of a second
Stamps == {sec * 1000000 + micro : sec \in 0..MaxStamp, micro \in {0, 1, 123456, 999999}}

\* strings that no encode_cursor call returned
Forged ==
    {<<"not-valid-base64!!!">>,
     <<"base64", <<"text">>>>,
     <<"base64", <<"number", 42>>>>,
     <<"base64", <<"null">>>>,
     <<"base64", <<"array", <<"id">>>>>>,
     <<"base64", <<"array", <<"created_at", "id">>>>>>,
     <<"base64", <<"json", [id |-> 42]>>>>,
     <<"base64", <<"json", [created_at |-> <<0, 123456>>]>>>>,
     <<"base64", <<"json", [created_at |-> <<>>, id |-> 42]>>>>,
     <<"base64", <<"json", [created_at |-> <<0, 1000000>>, id |-> 42]>>>>,
     <<"base64", <<"json", [created_at |-> <<0, 123456>>, id |-> 0]>>>>,
     <<"base64", <<"json", [created_at |-> <<0>>, id |-> -1]>>>>}

EncodeCursor(created_at, message_id) ==
    /\ codec' = [call |-> "encode", created_at |-> created_at, id |-> message_id,
                 cursor |-> encode_cursor(created_at, message_id), out |-> CodecIdle.out]
    /\ UNCHANGED <<http, pg, cx, resp, connVars, envVars, dbVars, cacheVars>>

\* decode_cursor(encode_cursor(created_at, id))
DecodeEncoded ==
    /\ codec.call = "encode"
    /\ codec' = [codec EXCEPT !.call = "decode", !.out = decode_cursor(codec.cursor)]
    /\ UNCHANGED <<http, pg, cx, resp, connVars, envVars, dbVars, cacheVars>>

\* decode_cursor of a string a client made up
DecodeForged(cursor) ==
    /\ codec' = [call |-> "decode", created_at |-> NULL, id |-> NULL, cursor |-> cursor,
                 out |-> decode_cursor(cursor)]
    /\ UNCHANGED <<http, pg, cx, resp, connVars, envVars, dbVars, cacheVars>>

NextCursor ==
    \/ \E t \in Stamps, id \in 1..MaxCursorId : EncodeCursor(t, id)
    \/ DecodeEncoded
    \/ \E cursor \in Forged \cup {NoCursor} : DecodeForged(cursor)

SpecCursor == InitPage /\ [][NextCursor]_vars

\* ------------------------------------------------------------- requests of members and others
\* u2 is a member of room 1 only, u4 of room 2 only
Requesters == {"u2", "u4"}

\* a listing request with a cursor of the requester's choice; one request is
\* followed at a time
ListRequest(kind, user_id, room_id, limit, q, cursor) ==
    /\ resp = NoRequest
    /\ LET res == fetch_page(messages, user_room,
                             [kind |-> kind, user |-> user_id, room |-> room_id,
                              limit |-> limit, query |-> q], cursor)
       IN  resp' = [kind |-> kind, user |-> user_id, room |-> room_id, cursor |-> cursor,
                    target |-> 0, status |-> res.status, messages |-> res.messages]
    /\ UNCHANGED <<http, pg, cx, codec, connVars, envVars, dbVars, cacheVars>>

\* a context request for any message id
ContextRequest(user_id, room_id, message_id, before, after) ==
    /\ resp = NoRequest
    /\ LET res == get_room_message_context(messages, user_room, user_id, room_id,
                                           message_id, before, after)
       IN  resp' = [kind |-> "context", user |-> user_id, room |-> room_id,
                    cursor |-> NoCursor, target |-> message_id, status |-> res.status,
                    messages |-> res.messages]
    /\ UNCHANGED <<http, pg, cx, codec, connVars, envVars, dbVars, cacheVars>>

NextAccess ==
    \/ Tick
    \/ \E r \in Rooms : PostText("u1", r, "apple")
    \/ \E u \in Requesters, r \in RoomIds, limit \in 1..MaxLimit,
          cursor \in Cursors \cup Forged \cup {NoCursor} :
          ListRequest("older", u, r, limit, "", cursor)
    \/ \E u \in Requesters, r \in RoomIds, limit \in 1..MaxLimit,
          cursor \in Cursors \cup Forged \cup {NoCursor} :
          ListRequest("newer", u, r, limit, "", cursor)
    \/ \E u \in Requesters, r \in RoomIds, limit \in 1..MaxLimit,
          cursor \in Cursors \cup Forged \cup {NoCursor} :
          ListRequest("search", u, r, limit, "apple", cursor)
    \/ \E u \in Requesters, r \in RoomIds, id \in 1..MaxRows, before \in 0..1, after \in 0..1 :
          ContextRequest(u, r, id, before, after)

SpecAccess == InitPage /\ [][NextAccess]_vars

\* ------------------------------------------------------------- jump to a message
\* a client asks for the window around a message
ContextFetch(room_id, message_id, before, after) ==
    /\ cx.phase = "idle"
    /\ LET res == get_room_message_context(messages, user_room, pg.user, room_id,
                                           message_id, before, after) IN
       /\ res.status = 200
       /\ cx' = [phase |-> "open", room |-> room_id, target |-> res.target_message_id,
                 before |-> before, after |-> after, messages |-> res.messages,
                 older_cursor |-> res.older_cursor, newer_cursor |-> res.newer_cursor,
                 first |-> {m \in messages : m.room_id = room_id}]
    /\ UNCHANGED <<http, pg, codec, resp, connVars, envVars, dbVars, cacheVars>>

\* it scrolls up from the window: backward pages from older_cursor
ContextOlder(limit) ==
    /\ cx.phase = "open"
    /\ cx.older_cursor # NoCursor
    /\ PageStart("older", cx.room, limit, "", cx.older_cursor)

\* it scrolls down from the window: newer pages from newer_cursor
ContextNewer(limit) ==
    /\ cx.phase = "open"
    /\ cx.newer_cursor # NoCursor
    /\ PageStart("newer", cx.room, limit, "", cx.newer_cursor)

NextContext ==
    \/ Tick
    \/ \E r \in Rooms : PostText("u1", r, "apple")
    \/ \E id \in 1..MaxRows, before \in 0..MaxAround, after \in 0..MaxAround :
          ContextFetch(1, id, before, after)
    \/ \E limit \in 1..MaxLimit : ContextOlder(limit)
    \/ \E limit \in 1..MaxLimit : ContextNewer(limit)
    \/ PageNext

SpecContext == InitPage /\ [][NextContext]_vars

\* ------------------------------------------------------------- send_message and the unread cache
\* fault: the connection is dropped when the limiter rejects a frame
RateLimited_closes(c) == OnException(c, room_subscriptions, last_bc)

\* check_message_rate returned False: send_error "Rate limit exceeded", continue
RateLimited(c) == send_error(c)

\* {"action": "send_message"}: the rate check of websocket_endpoint, then
\* handle_send_message up to its room and membership lookups; WSSendMessage
\* wants a content of 1..1000 characters and does not trim it
SendContent(c, room_id, content) ==
    /\ pc[c] = "recv"
    /\ LET rate == check_message_rate(message_counts, UserOf(c), mono, MAX_PER_MINUTE)
           valid == /\ content # ""
                    /\ room_id \in Rooms
                    /\ get_user_room(user_room, UserOf(c), room_id)
       IN
       /\ (rate.ok /\ valid) =>
             Cardinality(messages) + Cardinality({d \in Conns : pc[d] = "send_checked"})
                < MaxMsgs
       /\ ~rate.ok => RejectsOf(rate_log, UserOf(c), mono) < MaxRejects
       /\ message_counts' = rate.counts
       /\ rate_log' = note_frame(rate_log, UserOf(c), c, room_id, mono, rate.ok)
       /\ last_error' = IF rate.ok /\ valid THEN last_error
                        ELSE note_error(c, "send_message", room_id)
       /\ IF rate.ok /\ valid
          THEN /\ pc' = [pc EXCEPT ![c] = "send_checked"]
               /\ cur' = [cur EXCEPT ![c] = [InRoom(room_id) EXCEPT
                                                !.steps = <<"rate", "member">>,
                                                !.content = content]]
               /\ UNCHANGED <<active_connections, room_subscriptions, bc, cleanups,
                              last_bc, last_disc>>
          ELSE IF rate.ok THEN send_error(c) ELSE RateLimited(c)
    /\ UNCHANGED <<closed, mono, dbVars, cacheVars, httpVars>>

\* a send_message frame with a content of letters
SendFrame(c, room_id) == SendContent(c, room_id, "text")

\* a sender that stays far below the rate limit, with any content
RecvContent(c, room_id, content) ==
    /\ DictGet(message_counts, UserOf(c), <<mono, 0>>)[2] < MaxMsgs
    /\ SendContent(c, room_id, content)

\* a sender that stays far below the rate limit
RecvSend(c, room_id) ==
    /\ DictGet(message_counts, UserOf(c), <<mono, 0>>)[2] < MaxMsgs
    /\ SendFrame(c, room_id)

\* MessageCreate(room_id, content): trim_whitespace, then min_length = 1; a
\* ValidationError here is raised outside every try of the handler
MessageCreate(content) ==
    IF strip(content) = "" THEN [ok |-> FALSE, content |-> ""]
    ELSE [ok |-> TRUE, content |-> strip(content)]

\* MessageCreate, then message_crud.create_message
SendPersist(c) ==
    /\ pc[c] = "send_checked"
    /\ LET message_create == MessageCreate(cur[c].content)
           db_message == create_message(messages, cur[c].room, UserOf(c),
                                        message_create.content, now)
       IN  IF message_create.ok
           THEN /\ messages' = messages \cup {db_message}
                /\ cur' = [cur EXCEPT ![c].msg = db_message.id,
                                      ![c].steps = Append(@, "persist")]
                /\ pc' = [pc EXCEPT ![c] = "send_saved"]
                /\ UNCHANGED <<active_connections, room_subscriptions, bc, cleanups,
                               last_bc, last_disc>>
           ELSE /\ OnException(c, room_subscriptions, last_bc)
                /\ UNCHANGED messages
    /\ UNCHANGED <<user_room, now, envVars, cacheVars, httpVars>>

\* user_room_crud.mark_room_read for the sender
SendMarkRead(c) ==
    /\ pc[c] = "send_saved"
    /\ LET res == mark_room_read(user_room, UserOf(c), cur[c].room, now) IN
       /\ user_room' = res.user_room
       /\ IF res.ok
          THEN /\ pc' = [pc EXCEPT ![c] = "send_marked"]
               /\ cur' = [cur EXCEPT ![c].steps = Append(@, "mark")]
               /\ UNCHANGED <<active_connections, room_subscriptions, bc, cleanups,
                              last_bc, last_disc>>
          ELSE OnException(c, room_subscriptions, last_bc)
    /\ UNCHANGED <<messages, now, envVars, cacheVars, httpVars>>

\* UnreadCountCache.reset_unread for the sender
SendReset(c) ==
    /\ pc[c] = "send_marked"
    /\ redis' = reset_unread(redis, redis_up, redis_raises, UserOf(c), cur[c].room)
    /\ pc' = [pc EXCEPT ![c] = "send_reset"]
    /\ cur' = [cur EXCEPT ![c].steps = Append(@, "cache")]
    /\ UNCHANGED <<active_connections, room_subscriptions, bc, cleanups, last_bc,
                   last_disc>>
    /\ UNCHANGED <<redis_up, redis_raises, last_counts, envVars, dbVars, httpVars>>

\* select the UserRoom rows of the room's other members
SendQuery(c) ==
    /\ pc[c] = "send_reset"
    /\ cur' = [cur EXCEPT ![c].todo =
                  {o \in Users : get_user_room(user_room, o, cur[c].room) /\ o # UserOf(c)}]
    /\ pc' = [pc EXCEPT ![c] = "send_incr"]
    /\ UNCHANGED <<active_connections, room_subscriptions, bc, cleanups, last_bc, last_disc>>
    /\ UNCHANGED <<envVars, dbVars, cacheVars, httpVars>>

\* UnreadCountCache.increment_unread for the next of them (the rows come in any order)
SendIncrement(c) ==
    /\ pc[c] = "send_incr"
    /\ \E o \in cur[c].todo :
         /\ redis' = increment_unread(redis, redis_up, redis_raises, o, cur[c].room)
         /\ cur' = [cur EXCEPT ![c].todo = @ \ {o}]
    /\ UNCHANGED <<active_connections, room_subscriptions, pc, bc, cleanups, last_bc,
                   last_disc>>
    /\ UNCHANGED <<redis_up, redis_raises, last_counts, envVars, dbVars, httpVars>>

\* new_message is broadcast to the room
SendBroadcast(c) ==
    /\ pc[c] = "send_incr"
    /\ cur[c].todo = {}
    /\ BeginBroadcast(c, cur[c].room, NoConn, room_subscriptions)
    /\ UNCHANGED <<envVars, dbVars, cacheVars, httpVars>>

\* a send_message handler stopped between the message insert and its cache updates
Crashed == {c \in Conns : pc[c] = "cancelled" /\ cur[c].at \in {"send_saved", "send_marked"}}

\* GET /rooms?include_unread=true: UnreadCountCache.get_unread_counts, and the
\* unread_count the response gives for each room of the user.  returned: the
\* dict the call returned; cached, stored: the user's hash before and after the
\* call; up, raises: the state of the client during the call.  settled: no
\* send_message or mark-read is in flight or was cut short, and no message was
\* created in the very microsecond of one of the user's read markers.
GetCounts(user_id) ==
    LET res == get_unread_counts(redis, redis_up, redis_raises, messages, user_room, user_id)
        rooms == {r \in Rooms : get_user_room(user_room, user_id, r)}
    IN  /\ redis' = res.redis
        /\ last_counts' =
              [user |-> user_id, hit |-> res.hit, raised |-> res.raised,
               up |-> redis_up, raises |-> redis_raises,
               returned |-> res.counts,
               cached |-> HashOf(redis, user_id), stored |-> HashOf(res.redis, user_id),
               counts |-> [r \in rooms |-> DictGet(res.counts, r, 0)],
               durable |-> [r \in rooms |-> get_unread_count(messages, user_room, user_id, r)],
               settled |-> /\ \A c \in Conns : pc[c] \in {"new", "recv", "done"}
                           /\ \A u \in Users : http[u] = 0
                           /\ \A r \in rooms, m \in messages :
                                 m.created_at # user_room[<<user_id, r>>],
               answered |-> last_counts.answered \cup ({user_id} \X Crashed),
               fresh |-> {c \in Crashed : <<user_id, c>> \notin last_counts.answered}]
        /\ UNCHANGED <<redis_up, redis_raises, connVars, envVars, dbVars, httpVars>>

\* PATCH /rooms/{room_id}/read: user_room_crud.mark_room_read
MarkReadDb(user_id, room_id) ==
    /\ http[user_id] = 0
    /\ room_id \in Rooms
    /\ LET res == mark_room_read(user_room, user_id, room_id, now) IN
       /\ res.ok
       /\ user_room' = res.user_room
    /\ http' = [http EXCEPT ![user_id] = room_id]
    /\ UNCHANGED <<messages, now, pg, cx, codec, resp, connVars, envVars, cacheVars>>

\* PATCH /rooms/{room_id}/read: UnreadCountCache.reset_unread
MarkReadCache(user_id) ==
    /\ http[user_id] # 0
    /\ redis' = reset_unread(redis, redis_up, redis_raises, user_id, http[user_id])
    /\ http' = [http EXCEPT ![user_id] = 0]
    /\ UNCHANGED <<redis_up, redis_raises, last_counts, pg, cx, codec, resp, connVars, envVars, dbVars>>

\* the user's hash reaches its TTL
Expire(user_id) ==
    /\ user_id \in DOMAIN redis
    /\ redis' = DictDel(redis, user_id)
    /\ UNCHANGED <<redis_up, redis_raises, last_counts, connVars, envVars, dbVars, httpVars>>

\* u1 (c1) and u2 (c2) are connected, c2 listens to room 1; u3 is a member of
\* room 1 without a connection, u4 a member of room 2 only
Senders == {"c1"}
Readers == {"u3"}
MarkReaders == {"u3"}

InitUnread ==
    /\ active_connections = [c \in Tasks |-> UserOf(c)]
    /\ room_subscriptions = EmptyDict
    /\ pc = [c \in Conns |-> IF c \in Tasks THEN "recv" ELSE "new"]
    /\ closed = [c \in Conns |-> FALSE]
    /\ InitTasks
    /\ InitStore

NextUnread ==
    \/ Tick
    \/ \E c \in Senders :
         \/ \E r \in Rooms : RecvSend(c, r)
         \/ SendPersist(c)
         \/ SendMarkRead(c)
         \/ SendReset(c)
         \/ SendQuery(c)
         \/ SendIncrement(c)
         \/ SendBroadcast(c)
         \/ Cancel(c)
    \/ \E u \in Readers : GetCounts(u)
    \/ \E u \in MarkReaders, r \in Rooms : MarkReadDb(u, r)
    \/ \E u \in MarkReaders : MarkReadCache(u)
    \/ \E u \in Readers : Expire(u)

SpecUnread == InitUnread /\ [][NextUnread]_vars

\* ------------------------------------------------------------- messages over both entry points
\* u1 sends to room 1 over its connection and posts to rooms 1 and 2 over HTTP;
\* u3 marks room 1 read; u2 and u4 only receive.  The cache works and no hash
\* expires.
Posters == {"u1"}
Bystanders == {"u2", "u4"}

NextPost ==
    \/ Tick
    \/ \E u \in Posters, r \in Rooms : PostMessage(u, r)
    \/ \E c \in Senders :
         \/ RecvSend(c, 1)
         \/ SendPersist(c)
         \/ SendMarkRead(c)
         \/ SendReset(c)
         \/ SendQuery(c)
         \/ SendIncrement(c)
         \/ SendBroadcast(c)
    \/ \E u \in MarkReaders : MarkReadDb(u, 1)
    \/ \E u \in MarkReaders : MarkReadCache(u)

SpecPost == InitUnread /\ [][NextPost]_vars

\* ------------------------------------------------------------- a room and its listeners
\* c1 (u1), c2 and c3 (u2) are connected and subscribed to room 1; c1 sends to
\* the room while the client of c3 may go away
Listeners == {"c1", "c2", "c3"}
Leavers == {"c3"}

InitSend ==
    /\ active_connections = [c \in Listeners |-> UserOf(c)]
    /\ room_subscriptions = [r \in {1} |-> Listeners]
    /\ pc = [c \in Conns |-> "recv"]
    /\ closed = [c \in Conns |-> FALSE]
    /\ InitTasks
    /\ InitStore

NextSend ==
    \/ Tick
    \/ \E c \in Senders :
         \/ RecvSend(c, 1)
         \/ SendPersist(c)
         \/ SendMarkRead(c)
         \/ SendReset(c)
         \/ SendQuery(c)
         \/ SendIncrement(c)
         \/ SendBroadcast(c)
    \/ \E c \in Leavers :
         \/ ClientClose(c)
         \/ RecvDisconnect(c)
    \/ \E c \in Senders \cup Leavers : BroadcastStep(c)

SpecSend == InitSend /\ [][NextSend]_vars

\* ------------------------------------------------------------- two senders, one room
\* c1, c2 and c3 are subscribed to room 1 and stay; c1 (u1) and c2 (u2), both
\* members, send to the room, each from its own receive loop
NextOrder ==
    \/ Tick
    \/ \E c \in Tasks :
         \/ RecvSend(c, 1)
         \/ SendPersist(c)
         \/ SendMarkRead(c)
         \/ SendReset(c)
         \/ SendQuery(c)
         \/ SendIncrement(c)
         \/ SendBroadcast(c)
         \/ BroadcastStep(c)

SpecOrder == InitSend /\ [][NextOrder]_vars

\* ------------------------------------------------------------- a member leaves while connected
\* the rooms were created by u1
created_by(room_id) == "u1"

\* POST /rooms/{room_id}/leave: the user_room row is deleted; the registry of
\* connections is not touched
LeaveRoom(user_id, room_id) ==
    /\ room_id \in Rooms
    /\ get_user_room(user_room, user_id, room_id)
    /\ created_by(room_id) # user_id
    /\ user_room' = [k \in DOMAIN user_room \ {<<user_id, room_id>>} |-> user_room[k]]
    /\ UNCHANGED <<messages, now, connVars, envVars, cacheVars, httpVars>>

\* c1 (u1) and c2 (u2) are subscribed to room 1; u2 leaves the room over HTTP
\* while c2 stays connected; both connections type and send.  The error
\* events are followed.
InitLeave ==
    /\ active_connections = [c \in Conns |-> UserOf(c)]
    /\ room_subscriptions = [r \in {1} |-> {"c1", "c2"}]
    /\ pc = [c \in Conns |-> "recv"]
    /\ closed = [c \in Conns |-> FALSE]
    /\ message_counts = EmptyDict
    /\ rate_log = EmptyDict
    /\ last_error = NoError
    /\ mono = 0
    /\ cur = [c \in Conns |-> CurIdle]
    /\ bc = [c \in Conns |-> BcIdle]
    /\ cleanups = [c \in Conns |-> 0]
    /\ last_bc = NoOutcome
    /\ last_disc = NoDisconnect
    /\ InitStore

NextLeave ==
    \/ LeaveRoom("u2", 1)
    \/ \E c \in Tasks : RecvTyping(c, 1)
    \/ \E c \in Tasks :
         \/ RecvSend(c, 1)
         \/ SendPersist(c)
         \/ SendMarkRead(c)
         \/ SendReset(c)
         \/ SendQuery(c)
         \/ SendIncrement(c)
         \/ SendBroadcast(c)
    \/ \E c \in Tasks : BroadcastStep(c)

SpecLeave == InitLeave /\ [][NextLeave]_vars

\* ------------------------------------------------------------- contents of a send_message
\* a content of letters, one of blanks only, and the empty string
FrameContents == {"text", " ", ""}

\* c1, c2 and c3 are subscribed to room 1 and stay; c1 (u1, a member) sends
\* frames with any content.  The error events are followed.
InitContent ==
    /\ active_connections = [c \in Listeners |-> UserOf(c)]
    /\ room_subscriptions = [r \in {1} |-> Listeners]
    /\ pc = [c \in Conns |-> "recv"]
    /\ closed = [c \in Conns |-> FALSE]
    /\ message_counts = EmptyDict
    /\ rate_log = EmptyDict
    /\ last_error = NoError
    /\ mono = 0
    /\ cur = [c \in Conns |-> CurIdle]
    /\ bc = [c \in Conns |-> BcIdle]
    /\ cleanups = [c \in Conns |-> 0]
    /\ last_bc = NoOutcome
    /\ last_disc = NoDisconnect
    /\ InitStore

NextContent ==
    \/ Tick
    \/ \E c \in Senders, content \in FrameContents : RecvContent(c, 1, content)
    \/ \E c \in Senders :
         \/ SendPersist(c)
         \/ SendMarkRead(c)
         \/ SendReset(c)
         \/ SendQuery(c)
         \/ SendIncrement(c)
         \/ SendBroadcast(c)
         \/ BroadcastStep(c)

SpecContent == InitContent /\ [][NextContent]_vars

\* ------------------------------------------------------------- frames of every kind
\* c2 and c3 (u2) are subscribed to room 1, c1 (u1, a member of rooms 1 and 2)
\* is connected; c1 sends frames of every kind, c2 asks for rooms it may not
\* enter, the client of c3 may go away.  The error events are followed.
InitFrames ==
    /\ active_connections = [c \in Conns |-> UserOf(c)]
    /\ room_subscriptions = [r \in {1} |-> {"c2", "c3"}]
    /\ pc = [c \in Conns |-> "recv"]
    /\ closed = [c \in Conns |-> FALSE]
    /\ message_counts = EmptyDict
    /\ rate_log = EmptyDict
    /\ last_error = NoError
    /\ mono = 0
    /\ cur = [c \in Conns |-> CurIdle]
    /\ bc = [c \in Conns |-> BcIdle]
    /\ cleanups = [c \in Conns |-> 0]
    /\ last_bc = NoOutcome
    /\ last_disc = NoDisconnect
    /\ InitStore

NextFrames ==
    \/ \E r \in RoomIds : RecvSubscribe("c1", r)
    \/ \E r \in RoomIds : RecvTyping("c1", r)
    \/ \E r \in Rooms : RecvUnsubscribe("c1", r)
    \/ UnsubscribeNotify("c1")
    \/ RecvUnknown("c1")
    \/ \E action \in Validated : RecvInvalid("c1", action)
    \/ RecvMalformed("c1")
    \/ \E r \in RoomIds \ {1} : RecvSubscribe("c2", r)
    \/ SubscribeApply("c1")
    \/ SubscribeReply("c1")
    \/ \E c \in {"c1", "c3"} : ClientClose(c) \/ RecvDisconnect(c)
    \/ \E c \in Conns : BroadcastStep(c)

SpecFrames == InitFrames /\ [][NextFrames]_vars

\* ------------------------------------------------------------- the cache failing
\* commands of the client start raising (connection lost, timeout)
Commands == {"hgetall", "hset", "hincrby", "expire"}
FaultSets == {{}, Commands} \cup {{k} : k \in Commands}

RedisFault(raises) ==
    /\ redis_up
    /\ redis_raises = {}
    /\ raises # {}
    /\ redis_raises' = raises
    /\ UNCHANGED <<redis, redis_up, last_counts, connVars, envVars, dbVars, httpVars>>

\* init_redis found the server or left the client None
InitOutage ==
    /\ active_connections = [c \in Tasks |-> UserOf(c)]
    /\ room_subscriptions = EmptyDict
    /\ pc = [c \in Conns |-> IF c \in Tasks THEN "recv" ELSE "new"]
    /\ closed = [c \in Conns |-> FALSE]
    /\ InitTasks
    /\ messages = {}
    /\ user_room = Membership
    /\ now = 0
    /\ redis = EmptyDict
    /\ redis_up \in BOOLEAN
    /\ redis_raises = {}
    /\ last_counts = NoCounts
    /\ http = [u \in Users |-> 0]
    /\ pg = PgIdle
    /\ cx = CxIdle
    /\ codec = CodecIdle
    /\ resp = NoRequest

NextOutage ==
    \/ Tick
    \/ \E raises \in FaultSets : RedisFault(raises)
    \/ \E c \in Senders :
         \/ RecvSend(c, 1)
         \/ SendPersist(c)
         \/ SendMarkRead(c)
         \/ SendReset(c)
         \/ SendQuery(c)
         \/ SendIncrement(c)
         \/ SendBroadcast(c)
    \/ \E u \in Readers : GetCounts(u)
    \/ \E u \in MarkReaders : MarkReadDb(u, 1)
    \/ \E u \in MarkReaders : MarkReadCache(u)
    \/ \E u \in Readers : Expire(u)

SpecOutage == InitOutage /\ [][NextOutage]_vars

\* ------------------------------------------------------------- the send-rate limit
\* time.monotonic() moves on by half a window
MonoTick ==
    /\ mono < MaxMonoTicks * (WINDOW_SECONDS \div 2)
    /\ mono' = mono + WINDOW_SECONDS \div 2
    /\ UNCHANGED <<closed, message_counts, rate_log, last_error, connVars, dbVars, cacheVars,
                   httpVars>>

\* u2 over two transports: c2 is connected and listens to room 1, c3 connects
\* at some time and stays; c2 sends to room 1 and to the room 3 that does not
\* exist, c3 to room 3 only
RateTasks == {"c2", "c3"}

InitRate ==
    /\ active_connections = connect(EmptyDict, "c2", UserOf("c2"))
    /\ room_subscriptions = subscribe_to_room(EmptyDict, "c2", 1).subs
    /\ pc = [c \in Conns |-> IF c = "c2" THEN "recv" ELSE "new"]
    /\ closed = [c \in Conns |-> FALSE]
    /\ InitTasks
    /\ InitStore

NextRate ==
    \/ MonoTick
    \/ Connect("c3")
    \/ ClientClose("c2")
    \/ RecvDisconnect("c2")
    \/ SendFrame("c2", 1)
    \/ \E c \in RateTasks :
         \/ SendFrame(c, 3)
         \/ SendPersist(c)
         \/ SendMarkRead(c)
         \/ SendReset(c)
         \/ SendQuery(c)
         \/ SendIncrement(c)
         \/ SendBroadcast(c)
         \/ BroadcastStep(c)

SpecRate == InitRate /\ [][NextRate]_vars

\* ------------------------------------------------------------- what the limiter counts
\* c2 (u2, a member of room 1 only) is connected and listens to room 1; it
\* sends frames of every kind: send_message with any content to room 1, to
\* room 2, where u2 is no member, and to room 3, which does not exist
NextCount ==
    \/ MonoTick
    \/ \E r \in RoomIds, content \in FrameContents : SendContent("c2", r, content)
    \/ SendPersist("c2")
    \/ SendMarkRead("c2")
    \/ SendReset("c2")
    \/ SendQuery("c2")
    \/ SendIncrement("c2")
    \/ SendBroadcast("c2")
    \/ \E r \in RoomIds : RecvSubscribe("c2", r)
    \/ SubscribeApply("c2")
    \/ SubscribeReply("c2")
    \/ \E r \in Rooms : RecvUnsubscribe("c2", r)
    \/ UnsubscribeNotify("c2")
    \/ \E r \in Rooms : RecvTyping("c2", r)
    \/ RecvUnknown("c2")
    \/ \E action \in Validated : RecvInvalid("c2", action)
    \/ BroadcastStep("c2")

SpecCount == InitRate /\ [][NextCount]_vars

\* ------------------------------------------------------------- properties
\* C1: a broadcast_to_room call during which another connection's disconnect,
\* unsubscribe or subscribe changed the room's subscriber set still returns
\* normally: it raises nothing and it has sent the event exactly once to every
\* non-excluded member of the set it started on.
C1_BroadcastOverSnapshot ==
    (last_bc.by # NoConn /\ last_bc.dirty) =>
        /\ ~last_bc.raised
        /\ \A x \in Conns :
             last_bc.delivered[x] + last_bc.failed[x]
                = IF x \in last_bc.snap \ {last_bc.exclude} THEN 1 ELSE 0

\* C7: every transport in some room's subscriber set is in the live-connection
\* map, and a transport whose disconnect cleanup has run is in no room's set.
C7_SubscribersAreLive ==
    \A r \in DOMAIN room_subscriptions : \A ws \in room_subscriptions[r] :
        /\ ws \in DOMAIN active_connections
        /\ cleanups[ws] = 0

\* a cleanup removed a subscribed transport while another one stays subscribed
C7_Witness ==
    /\ last_disc.ws # NoConn
    /\ cleanups[last_disc.ws] = 1
    /\ last_disc.rooms # {}
    /\ \E r \in DOMAIN room_subscriptions : room_subscriptions[r] # {}

\* C8: every key of room_subscriptions maps to a non-empty set, after any
\* sequence of subscribe, unsubscribe, disconnect and broadcast, a subscribe
\* rejected by the cap included.
C8_NoEmptyRoomEntry ==
    \A r \in DOMAIN room_subscriptions : room_subscriptions[r] # {}

\* c1 asked for a room while holding MAX_SUBSCRIPTIONS_PER_CONNECTION others:
\* the subscribe was rejected and the handler went on
C8_Witness ==
    /\ pc["c1"] = "sub_users"
    /\ cur["c1"].room \notin DOMAIN room_subscriptions
    /\ Cardinality({r \in DOMAIN room_subscriptions : "c1" \in room_subscriptions[r]})
          = MAX_SUBSCRIPTIONS_PER_CONNECTION

\* C10: however the receive loop of an accepted connection ends, client close,
\* failed send, handler exception or task cancellation, manager.disconnect has
\* run for it exactly once.
C10_CleanupExactlyOnce ==
    \A c \in Conns : pc[c] \in {"done", "cancelled"} => cleanups[c] = 1

\* C2: a broadcast_to_room(R, event, exclude) during which the sends to the set
\* F of subscribers fail raises nothing, has delivered the event exactly once to
\* every subscriber outside F other than exclude, to nobody else and nothing
\* twice, and leaves R's set equal to the prior set minus F, with R's entry
\* deleted exactly when that set is empty.
C2_BroadcastSurvivesFailedSends ==
    last_bc.by # NoConn =>
        LET F == {x \in Conns : last_bc.failed[x] > 0}
            targets == last_bc.snap \ {last_bc.exclude}
        IN  /\ ~last_bc.raised
            /\ F \subseteq targets
            /\ \A x \in Conns :
                 /\ last_bc.failed[x] <= 1
                 /\ last_bc.delivered[x] = IF x \in targets \ F THEN 1 ELSE 0
            /\ last_bc.subs = last_bc.snap \ F
            /\ last_bc.present <=> (last_bc.snap \ F # {})

\* a broadcast to three subscribers, one excluded, one failed, one delivered to
C2_Witness ==
    /\ last_bc.by # NoConn
    /\ last_bc.exclude \in last_bc.snap
    /\ \E x, y \in last_bc.snap :
         /\ last_bc.failed[x] = 1
         /\ last_bc.delivered[y] = 1
    /\ last_bc.subs = last_bc.snap \ {x \in Conns : last_bc.failed[x] > 0}

\* C9: disconnect(ws) removes ws from the live-connection map and from every
\* room's set, leaves the map entries and the subscriptions of every other
\* transport as they were, and returns exactly the rooms ws was subscribed to;
\* a second disconnect(ws) returns no room and changes nothing.
C9_DisconnectContract ==
    last_disc.ws # NoConn =>
        LET ws == last_disc.ws
            again == disconnect(last_disc.active_after, last_disc.after, ws)
        IN  /\ ws \notin DOMAIN last_disc.active_after
            /\ \A o \in Conns \ {ws} :
                 /\ o \in DOMAIN last_disc.active_after <=> o \in DOMAIN last_disc.active_before
                 /\ o \in DOMAIN last_disc.active_before =>
                        last_disc.active_after[o] = last_disc.active_before[o]
                 /\ \A r \in RoomIds \cup FillerRooms :
                        o \in DictGet(last_disc.after, r, {})
                            <=> o \in DictGet(last_disc.before, r, {})
            /\ \A r \in DOMAIN last_disc.after : ws \notin last_disc.after[r]
            /\ last_disc.rooms = {r \in DOMAIN last_disc.before : ws \in last_disc.before[r]}
            /\ again.rooms = {}
            /\ again.active = last_disc.active_after
            /\ again.subs = last_disc.after

\* the transport was in two rooms, alone in one and with another transport in
\* the other
C9_Witness ==
    /\ last_disc.ws # NoConn
    /\ Cardinality(last_disc.rooms) = 2
    /\ \E r \in last_disc.rooms : r \notin DOMAIN last_disc.after
    /\ \E r \in last_disc.rooms : r \in DOMAIN last_disc.after

CachedCount(rd, user_id, room_id) == DictGet(HashOf(rd, user_id), room_id, 0)

\* there is a client and none of its commands raises
CacheReachable == redis_up /\ redis_raises = {}

\* C4: a persisted send_message with the cache reachable sets the sender's
\* cached count for the room to 0 and adds exactly 1 to the cached count of
\* every other member of the room, each once; the counts of other rooms and of
\* non-members are not touched by it.
C4_SendUpdatesCache ==
    [][\A c \in Senders :
         LET u == UserOf(c)
             r == cur[c].room
         IN  /\ (pc[c] = "send_marked" /\ pc'[c] = "send_reset" /\ CacheReachable) =>
                   /\ u \in DOMAIN redis'
                   /\ \A o \in Users, q \in Rooms :
                        CachedCount(redis', o, q)
                           = IF o = u /\ q = r THEN 0 ELSE CachedCount(redis, o, q)
             /\ (pc[c] = "send_reset" /\ pc'[c] = "send_incr") =>
                   /\ cur'[c].todo = {o \in Users : <<o, r>> \in DOMAIN user_room} \ {u}
                   /\ redis' = redis
             /\ (pc[c] = "send_incr" /\ pc'[c] = "send_incr" /\ cur'[c] # cur[c] /\ CacheReachable) =>
                   \E m \in cur[c].todo :
                      /\ cur'[c].todo = cur[c].todo \ {m}
                      /\ \A o \in Users, q \in Rooms :
                           CachedCount(redis', o, q)
                              = CachedCount(redis, o, q) + IF o = m /\ q = r THEN 1 ELSE 0
             /\ (pc[c] = "send_incr" /\ pc'[c] \notin {"send_incr", "cancelled"}) =>
                   cur[c].todo = {}
      ]_vars

\* the second message to room 1 has been counted for both other members, the
\* sender's count is 0, and the count u4 has for room 2 is still there
C4_Witness ==
    /\ pc["c1"] = "send_incr"
    /\ cur["c1"].room = 1
    /\ cur["c1"].todo = {}
    /\ "u1" \in DOMAIN redis
    /\ CachedCount(redis, "u1", 1) = 0
    /\ CachedCount(redis, "u2", 1) = 2
    /\ CachedCount(redis, "u3", 1) = 2
    /\ CachedCount(redis, "u4", 2) = 1

\* C5: after any sequence of sends, mark-reads, expiries and get_counts calls,
\* every count get_counts returns for a room of the user is within one of the
\* durable count, and a full population returns the durable counts themselves.
C5_CountsWithinOneOfDurable ==
    (last_counts.user # "none" /\ last_counts.settled) =>
        /\ \A r \in DOMAIN last_counts.counts :
             /\ last_counts.counts[r] - last_counts.durable[r] <= 1
             /\ last_counts.durable[r] - last_counts.counts[r] <= 1
        /\ ~last_counts.hit => last_counts.counts = last_counts.durable

\* C6: when a send_message stopped after its insert and before its cache
\* updates, the next get_counts of a member of that room returns the durable
\* unread count for it.
C6_NextReadAfterCrashIsDurable ==
    \A c \in last_counts.fresh :
        cur[c].room \in DOMAIN last_counts.counts =>
            last_counts.counts[cur[c].room] = last_counts.durable[cur[c].room]

\* number of rooms whose subscriber set holds ws
SubscriptionCount(rs, ws) == Cardinality({r \in DOMAIN rs : ws \in rs[r]})

\* C11: no connection is ever subscribed to more than
\* MAX_SUBSCRIPTIONS_PER_CONNECTION rooms; subscribe_to_room for a room the
\* connection is already in returns True and changes nothing, even at the cap;
\* for a new room at the cap it returns False and changes nothing, so no room
\* entry is created; below the cap it returns True and adds the connection to
\* that room's set and to no other.
C11_SubscriptionCap ==
    [][/\ \A ws \in Conns :
            /\ SubscriptionCount(room_subscriptions, ws) <= MAX_SUBSCRIPTIONS_PER_CONNECTION
            /\ SubscriptionCount(room_subscriptions', ws) <= MAX_SUBSCRIPTIONS_PER_CONNECTION
       /\ \A c \in Conns :
            (pc[c] = "sub_checked" /\ pc'[c] = "sub_users") =>
               LET r == cur[c].room
                   before == room_subscriptions
                   after == room_subscriptions'
                   isIn == r \in DOMAIN before /\ c \in before[r]
                   atCap == SubscriptionCount(before, c) >= MAX_SUBSCRIPTIONS_PER_CONNECTION
               IN  /\ isIn => cur'[c].ok /\ after = before
                   /\ (~isIn /\ atCap) =>
                         /\ ~cur'[c].ok
                         /\ after = before
                         /\ (r \notin DOMAIN before => r \notin DOMAIN after)
                   /\ (~isIn /\ ~atCap) =>
                         /\ cur'[c].ok
                         /\ after = DictPut(before, r, DictGet(before, r, {}) \cup {c})
      ]_vars

\* the connection holds MAX_SUBSCRIPTIONS_PER_CONNECTION rooms and its subscribe
\* to a room that has no entry was just refused
C11_Witness ==
    \E c \in Conns :
        /\ pc[c] = "sub_users"
        /\ ~cur[c].ok
        /\ cur[c].room \notin DOMAIN room_subscriptions
        /\ SubscriptionCount(room_subscriptions, c) = MAX_SUBSCRIPTIONS_PER_CONNECTION

\* C12: in the 60 seconds that begin with a user's first send_message frame
\* (and again with the first frame after those 60 seconds are over) exactly the
\* first MAX_PER_MINUTE frames are admitted and every further one is rejected,
\* over whichever of the user's connections they arrive: never more than
\* MAX_PER_MINUTE are admitted, and a frame is rejected only when
\* MAX_PER_MINUTE have been admitted.
C12_RateLimitPerWindow ==
    \A u \in DOMAIN rate_log :
        /\ rate_log[u].admitted <= MAX_PER_MINUTE
        /\ rate_log[u].rejected > 0 => rate_log[u].admitted = MAX_PER_MINUTE

\* a user reached the limit with frames over two connections and was rejected
C12_Witness ==
    \E u \in DOMAIN rate_log :
        /\ rate_log[u].admitted = MAX_PER_MINUTE
        /\ rate_log[u].rejected > 0
        /\ Cardinality(rate_log[u].conns) = 2

\* C13: the limiter's window of a user is the 60 seconds of wall clock that
\* began with the first frame after the previous window was over: that frame
\* is admitted and starts the new window with count 1, and the frames rejected
\* inside a window neither move its start nor change its count.
C13_WindowExpiresByClock ==
    \A u \in DOMAIN rate_log :
        /\ u \in DOMAIN message_counts
        /\ message_counts[u] = <<rate_log[u].start, rate_log[u].admitted>>
        /\ rate_log[u].admitted >= 1

\* a user that was rejected is admitted by the first frame it sends exactly 60
\* seconds after its window began
C13_Witness ==
    \E u \in DOMAIN rate_log :
        /\ rate_log[u].renewed
        /\ rate_log[u].start = WINDOW_SECONDS
        /\ rate_log[u].admitted = 1
        /\ rate_log[u].rejected = 0
        /\ rate_log[u].ok

\* C14: a step in which manager.disconnect runs changes no user's rate-limit
\* state (unless the same step counted a frame), and when a connection of a
\* user who has used up the window was cleaned up, a frame of that user over
\* another connection is rejected as long as the window lasts.
C14_DisconnectKeepsRateState ==
    [][/\ (cleanups' # cleanups /\ rate_log' = rate_log) => message_counts' = message_counts
       /\ \A c \in Conns :
            LET u == UserOf(c) IN
            (/\ pc[c] = "recv"
             /\ rate_log' # rate_log
             /\ rate_log'[u].by = c
             /\ u \in DOMAIN rate_log
             /\ ~FreshWindow(rate_log, u, mono)
             /\ rate_log[u].admitted = MAX_PER_MINUTE
             /\ \E d \in rate_log[u].conns \ {c} : cleanups[d] > 0)
            => ~rate_log'[u].ok
      ]_vars

\* c2 used up the window and was cleaned up; the frame of the same user over
\* c3 was rejected
C14_Witness ==
    /\ cleanups["c2"] = 1
    /\ "u2" \in DOMAIN rate_log
    /\ "c2" \in rate_log["u2"].conns
    /\ rate_log["u2"].by = "c3"
    /\ ~rate_log["u2"].ok

\* the step in which the limiter rejected a send_message frame of connection c
RejectedFrame(c) ==
    /\ pc[c] = "recv"
    /\ rate_log' # rate_log
    /\ rate_log'[UserOf(c)].by = c
    /\ ~rate_log'[UserOf(c)].ok

GetFailed(lc) ==
    \/ ~lc.up
    \/ "hgetall" \in lc.raises
    \/ lc.cached = EmptyDict /\ lc.raises \cap {"hset", "expire"} # {}

\* the client is missing or one of the commands in cmds raises
CallFails(cmds) == ~redis_up \/ redis_raises \cap cmds # {}

\* C16: a cache operation that fails (no client, or hgetall, hset, hincrby or
\* expire raising) raises nothing out of get_unread_counts, increment_unread or
\* reset_unread: get_unread_counts returns the counts of the durable store,
\* and after increment_unread and reset_unread the handler goes on to its next
\* step with the messages and read markers as they were.
C16_CacheFailureNeverPropagates ==
    [][/\ (last_counts'.user # "none" /\ GetFailed(last_counts')) =>
             /\ ~last_counts'.raised
             /\ last_counts'.returned = last_counts'.durable
       /\ \A c \in Senders :
            /\ (pc[c] = "send_marked" /\ pc'[c] # pc[c] /\ CallFails({"hset", "expire"})) =>
                  /\ pc'[c] = "send_reset"
                  /\ c \in DOMAIN active_connections'
                  /\ dbVars' = dbVars
                  /\ CallFails({"hset"}) => redis' = redis
            /\ (pc[c] = "send_incr" /\ cur'[c].todo # cur[c].todo
                  /\ CallFails({"hincrby", "expire"})) =>
                  /\ pc'[c] = "send_incr"
                  /\ c \in DOMAIN active_connections'
                  /\ dbVars' = dbVars
                  /\ CallFails({"hincrby"}) => redis' = redis
       /\ \A u \in MarkReaders :
            (http[u] # 0 /\ http'[u] # http[u] /\ CallFails({"hset", "expire"})) =>
                  /\ http'[u] = 0
                  /\ dbVars' = dbVars
                  /\ CallFails({"hset"}) => redis' = redis
      ]_vars

\* hgetall raised while the user's hash held a count that an increment_unread
\* with a raising hincrby had left behind the store; the counts returned are
\* those of the store
C16_Witness ==
    /\ last_counts.user = "u3"
    /\ last_counts.up
    /\ "hgetall" \in last_counts.raises
    /\ 1 \in DOMAIN last_counts.cached
    /\ last_counts.cached[1] < last_counts.durable[1]
    /\ last_counts.returned = last_counts.durable
    /\ pc["c1"] = "send_incr"
    /\ cur["c1"].todo = {}
    /\ "hincrby" \in redis_raises

\* C17: a get_unread_counts that misses the cache or cannot use it returns, for
\* exactly the rooms the user is a member of, the number of the room's messages
\* created strictly after the user's last_read_at (all of them when it is not
\* set); when the client is there and hgetall, hset and expire work, the
\* user's hash afterwards holds exactly the counts returned; on a hit the
\* cached hash is returned as it is and left as it is.
C17_MissRecomputesFromStore ==
    [][last_counts' # last_counts =>
         LET lc == last_counts'
             u == lc.user
             usable == lc.up /\ "hgetall" \notin lc.raises
             hit == usable /\ lc.cached # EmptyDict
             rooms == {r \in Rooms : <<u, r>> \in DOMAIN user_room}
         IN
             /\ ~hit =>
                  /\ DOMAIN lc.returned = rooms
                  /\ \A r \in rooms :
                       lc.returned[r] =
                          Cardinality({m \in messages :
                                          /\ m.room_id = r
                                          /\ \/ user_room[<<u, r>>] = NULL
                                             \/ m.created_at > user_room[<<u, r>>]})
                  /\ (usable /\ lc.raises \cap {"hset", "expire"} = {}) =>
                        lc.stored = lc.returned
             /\ hit =>
                  /\ lc.returned = lc.cached
                  /\ lc.stored = lc.cached
      ]_vars

\* a miss with the cache reachable: the room holds a message created at the
\* very time of the reader's read marker and one created after it, the call
\* returned 1 and stored it
C17_Witness ==
    /\ last_counts.user = "u3"
    /\ last_counts.up
    /\ last_counts.raises = {}
    /\ last_counts.cached = EmptyDict
    /\ user_room[<<"u3", 1>>] # NULL
    /\ \E m \in messages : m.room_id = 1 /\ m.created_at = user_room[<<"u3", 1>>]
    /\ \E m \in messages : m.room_id = 1 /\ m.created_at > user_room[<<"u3", 1>>]
    /\ get_unread_count(messages, user_room, "u3", 1) = 1
    /\ last_counts.returned = [r \in {1} |-> 1]
    /\ last_counts.stored = last_counts.returned

\* no send_message handler is between its frame and its return
NoSendInFlight == \A c \in Conns : pc[c] \in {"new", "recv"}

\* C18: every message persisted over the WebSocket or over POST /messages is
\* followed by its cache update, and every mark-read by a reset: once no
\* send_message is in flight, each member that neither sends nor marks read
\* has every message of its room in its cached count and the sender has 0,
\* and the cache step of a mark-read leaves the caller's count for the room 0.
C18_EveryPersistUpdatesCache ==
    [][/\ NoSendInFlight' =>
            \A r \in Rooms :
               /\ \A o \in Bystanders :
                    <<o, r>> \in DOMAIN user_room' =>
                       CachedCount(redis', o, r)
                          = Cardinality({m \in messages' : m.room_id = r})
               /\ \A u \in Posters : CachedCount(redis', u, r) = 0
       /\ \A u \in MarkReaders :
            (http[u] # 0 /\ http'[u] = 0) => CachedCount(redis', u, http[u]) = 0
      ]_vars

\* C19: the steps of one send_message are taken in the order rate-limit check,
\* membership validation, message persisted, read marker updated, new_message
\* broadcast, unread-cache updates: what a handler has done so far is always
\* the beginning of that list, so the broadcast comes after the insert and
\* before the cache updates.
C19_SendStepsInOrder ==
    LET order == <<"rate", "member", "persist", "mark", "broadcast", "cache">> IN
    \A c \in Conns :
        /\ Len(cur[c].steps) <= Len(order)
        /\ \A i \in 1..Len(cur[c].steps) : cur[c].steps[i] = order[i]

\* the new_message event of the send_message that c is broadcasting
new_message(c) ==
    LET db_message == CHOOSE m \in messages : m.id = cur[c].msg IN
    [type |-> "new_message", id |-> db_message.id, room_id |-> db_message.room_id,
     created_at |-> db_message.created_at]

\* C20: when the broadcast of a persisted send_message to room R is over, every
\* connection that was subscribed to R when it began and is still subscribed
\* and open, the sender's own included, has received the new_message event
\* with the id and created_at of the stored message; nobody has received it
\* twice and nobody outside R's subscribers has received it.
C20_NewMessageReachesSubscribers ==
    [][\A c \in Senders :
         (pc[c] = "bcast" /\ cur[c].msg # 0 /\ pc'[c] # "bcast") =>
            LET out == last_bc'
                event == new_message(c)
            IN  /\ out.by = c
                /\ event.room_id = out.room
                /\ \E m \in messages : m.id = event.id /\ m.created_at = event.created_at
                /\ \A x \in Conns :
                     /\ (x \in out.snap /\ x \in out.subs /\ ~closed[x]) => out.delivered[x] = 1
                     /\ out.delivered[x] <= 1
                     /\ x \notin out.snap => out.delivered[x] = 0
      ]_vars

\* C21: a user_typing frame for a room whose subscriber set does not hold the
\* connection is answered by an error event to that connection; nothing is
\* broadcast, no table and no cache entry changes, and the connection stays
\* registered with its subscriptions and goes back to receive_json.
C21_TypingNeedsSubscription ==
    [][\A c \in Conns, r \in RoomIds :
         (RecvTyping(c, r) /\ ~IsSubscribed(room_subscriptions, c, r) /\ ~closed[c]) =>
            /\ last_error' = [to |-> c, action |-> "user_typing", room |-> r]
            /\ connVars' = connVars
            /\ dbVars' = dbVars
            /\ cacheVars' = cacheVars
      ]_vars

\* c1 is not subscribed to room 1, which c2 and c3 listen to; its typing frame
\* for the room was answered by an error and nothing was ever broadcast
C21_Witness ==
    /\ last_error = [to |-> "c1", action |-> "user_typing", room |-> 1]
    /\ ~IsSubscribed(room_subscriptions, "c1", 1)
    /\ room_subscriptions[1] = {"c2", "c3"}
    /\ pc["c1"] = "recv"
    /\ "c1" \in DOMAIN active_connections
    /\ last_bc = NoOutcome
    /\ bc = [c \in Conns |-> BcIdle]

\* C22: a user_typing frame for a room the connection is subscribed to delivers
\* typing_indicator to every other connection that is subscribed to the room
\* and open, and never to the sender; when the sender is the room's only
\* subscriber nothing is sent, no error is produced and the connection stays.
C22_TypingReachesOthers ==
    [][\A c \in Conns :
         /\ (/\ pc[c] = "bcast"
             /\ bc[c].ctx = "handler"
             /\ cur[c].event = "typing_indicator"
             /\ pc'[c] # "bcast") =>
               LET out == last_bc' IN
               /\ out.by = c
               /\ out.exclude = c
               /\ out.delivered[c] = 0
               /\ \A x \in Conns \ {c} :
                    (x \in out.snap /\ x \in out.subs /\ ~closed[x]) => out.delivered[x] = 1
         /\ \A r \in RoomIds :
              (RecvTyping(c, r) /\ IsSubscribed(room_subscriptions, c, r)
                  /\ room_subscriptions[r] = {c}) =>
                 /\ last_bc'.by = c
                 /\ last_bc'.delivered = ZeroBag
                 /\ last_bc'.failed = ZeroBag
                 /\ last_error' = last_error
                 /\ pc'[c] = "recv"
                 /\ room_subscriptions' = room_subscriptions
      ]_vars

\* C23: a frame with an unknown action, a frame whose payload fails the schema
\* of its action and a frame that is not a JSON object are each answered by an
\* error event to the sender; nothing is broadcast, the registry, the tables
\* and the cache stay as they are, and the connection stays registered with
\* its subscriptions and goes back to receive_json.
C23_BadFrameOnlyErrors ==
    [][\A c \in Conns :
         (/\ ~closed[c]
          /\ \/ RecvUnknown(c)
             \/ \E action \in Validated : RecvInvalid(c, action)
             \/ RecvMalformed(c)) =>
            /\ last_error'.to = c
            /\ connVars' = connVars
            /\ dbVars' = dbVars
            /\ cacheVars' = cacheVars
      ]_vars

\* C24: a subscribe frame for a room that does not exist, or that the caller
\* is not a member of, is answered by an error event; it adds no subscription
\* and broadcasts nothing.  A connection enters a room's set only in the
\* handle_subscribe that has just passed the room and membership checks for
\* that room, so every subscriber is a member of its room.
C24_SubscribeNeedsMembership ==
    [][/\ \A c \in Conns, r \in RoomIds :
            (/\ RecvSubscribe(c, r)
             /\ ~(r \in Rooms /\ <<UserOf(c), r>> \in DOMAIN user_room)
             /\ ~closed[c]) =>
               /\ last_error' = [to |-> c, action |-> "subscribe", room |-> r]
               /\ connVars' = connVars
       /\ \A r \in DOMAIN room_subscriptions' : \A ws \in room_subscriptions'[r] :
            /\ r \in Rooms
            /\ <<UserOf(ws), r>> \in DOMAIN user_room
            /\ ~IsSubscribed(room_subscriptions, ws, r) =>
                  /\ pc[ws] = "sub_checked"
                  /\ cur[ws].room = r
      ]_vars

\* c2 asked for room 2, which exists and which its user is not a member of,
\* while c1 listens to that room: c2 has the error, is not in the room's set
\* and has broadcast nothing
C24_Witness ==
    /\ last_error = [to |-> "c2", action |-> "subscribe", room |-> 2]
    /\ IsSubscribed(room_subscriptions, "c1", 2)
    /\ ~IsSubscribed(room_subscriptions, "c2", 2)
    /\ <<"u2", 2>> \notin DOMAIN user_room
    /\ pc["c2"] = "recv"
    /\ last_bc.by # "c2"

\* C25: a successful subscribe first adds the connection to the room's set,
\* with the subscriber among the online users it then collects; user_joined is
\* broadcast only after the subscribed reply went out, with the subscriber
\* excluded; when that broadcast is over every other connection that is
\* subscribed to the room and open has received user_joined, and the
\* subscriber has not.
C25_SubscribeThenNotify ==
    [][\A c \in Conns :
         LET r == cur[c].room IN
         /\ (pc[c] = "sub_checked" /\ pc'[c] = "sub_users" /\ cur'[c].ok) =>
               /\ IsSubscribed(room_subscriptions', c, r)
               /\ UserOf(c) \in room_user_ids(active_connections', room_subscriptions', r)
               /\ bc'[c] = BcIdle
               /\ last_bc' = last_bc
         /\ (pc[c] # "bcast" /\ pc'[c] = "bcast" /\ cur'[c].event = "user_joined") =>
               /\ pc[c] = "sub_users"
               /\ ~closed[c]
               /\ IsSubscribed(room_subscriptions, c, r)
               /\ bc'[c].exclude = c
         /\ (/\ pc[c] = "bcast"
             /\ bc[c].ctx = "handler"
             /\ cur[c].event = "user_joined"
             /\ pc'[c] # "bcast") =>
               LET out == last_bc' IN
               /\ out.by = c
               /\ out.delivered[c] = 0
               /\ \A x \in Conns \ {c} :
                    (x \in out.snap /\ x \in out.subs /\ ~closed[x]) => out.delivered[x] = 1
      ]_vars

\* the rooms a suspended leave broadcast is sending to or still has to send to
LeaveRooms(it) == {it.room} \cup {it.pending[i] : i \in 1..Len(it.pending)}

\* C26: when a connection ends, through the close of its transport or through
\* an error in the protocol or in a handler, manager.disconnect leaves it in no
\* room's set, user_left is broadcast to every room it was in that still has
\* subscribers, and when the broadcast to such a room is over every connection
\* that is subscribed to the room and open has received user_left.
C26_LeaveIsAnnounced ==
    [][\A c \in Conns :
         /\ cleanups'[c] # cleanups[c] =>
               /\ last_disc'.ws = c
               /\ \A r \in DOMAIN room_subscriptions' : c \notin room_subscriptions'[r]
               /\ \A r \in last_disc'.rooms :
                    r \in DOMAIN room_subscriptions' =>
                       /\ pc'[c] = "bcast"
                       /\ bc'[c].ctx = "leave"
                       /\ r \in LeaveRooms(bc'[c])
         /\ (/\ pc[c] = "bcast"
             /\ bc[c].ctx = "leave"
             /\ (pc'[c] # "bcast" \/ bc'[c].room # bc[c].room)) =>
               LET out == last_bc' IN
               /\ out.by = c
               /\ out.room = bc[c].room
               /\ \A x \in Conns :
                    (x \in out.snap /\ x \in out.subs /\ ~closed[x]) => out.delivered[x] = 1
      ]_vars

\* ------------------------------------------------------------- properties of the cursor listings
\* the rows of room_id strictly older than the position a cursor names; all of
\* the room's rows without a cursor
OlderThanCursor(msgs, room_id, cursor) ==
    {m \in msgs :
       /\ m.room_id = room_id
       /\ cursor # NoCursor =>
            Older(m, decode_cursor(cursor).created_at, decode_cursor(cursor).id)}

\* C27: one backward page with limit L, asked with any cursor or none, holds
\* min(L, m) messages, m being the number of the room's messages strictly older
\* than the cursor: the newest of them, in strictly descending (created_at, id)
\* order; next_cursor is present exactly when m > L, and then it decodes to the
\* (created_at, id) of the last (oldest) message of the page.
C27_BackwardPageContract ==
    [][(pg'.fetches # pg.fetches /\ pg'.kind = "older") =>
        LET cursor == IF pg.phase = "idle" THEN pg'.start ELSE pg.cursor
            page == SubSeq(pg'.pages, Len(pg.pages) + 1, Len(pg'.pages))
            older == OlderThanCursor(messages, pg'.room, cursor)
            L == pg'.limit
            m == Cardinality(older)
        IN  /\ Len(page) = IF L < m THEN L ELSE m
            /\ \A i \in 1..Len(page) : page[i] \in older
            /\ \A i \in 1..(Len(page) - 1) :
                  Older(page[i + 1], page[i].created_at, page[i].id)
            /\ \A o \in older :
                  (\A i \in 1..Len(page) : page[i] # o) =>
                      Older(o, page[Len(page)].created_at, page[Len(page)].id)
            /\ (pg'.cursor # NoCursor) <=> (m > L)
            /\ pg'.cursor # NoCursor =>
                  decode_cursor(pg'.cursor) =
                      [ok |-> TRUE, created_at |-> page[Len(page)].created_at,
                       id |-> page[Len(page)].id]
    ]_vars

\* a page asked with a cursor was full and announced a further page, two of
\* its messages share their created_at, and a message of the room was not
\* older than the cursor
C27_Witness ==
    /\ pg.kind = "older"
    /\ pg.start # NoCursor
    /\ pg.fetches = 1
    /\ pg.cursor # NoCursor
    /\ Len(pg.pages) = 2
    /\ pg.pages[1].created_at = pg.pages[2].created_at
    /\ \E m \in messages : m.room_id = pg.room /\ m \notin pg.first

\* C28: a client that starts at a cursor and follows next_cursor through the
\* newer pages has, after every fetch, the first part of the strictly ascending
\* (created_at, id) list of the room's messages strictly greater than the
\* starting cursor, each once and never the message the cursor names; the
\* fetch that reaches the newest message, and only that one, comes without
\* next_cursor.
C28_ForwardPagesCoverNewer ==
    [][(pg'.fetches # pg.fetches /\ pg'.kind = "newer") =>
        LET start == decode_cursor(pg'.start)
            newer == {m \in messages :
                        /\ m.room_id = pg'.room
                        /\ \/ m.created_at > start.created_at
                           \/ m.created_at = start.created_at /\ m.id > start.id}
            all == OrderAsc(newer)
            got == pg'.pages
        IN  /\ Len(got) <= Len(all)
            /\ got = Take(all, Len(got))
            /\ \A i \in 1..(Len(got) - 1) :
                  \/ got[i].created_at < got[i + 1].created_at
                  \/ got[i].created_at = got[i + 1].created_at /\ got[i].id < got[i + 1].id
            /\ \A i \in 1..Len(got) :
                  ~(got[i].created_at = start.created_at /\ got[i].id = start.id)
            /\ (pg'.cursor = NoCursor) <=> (Len(got) = Len(all))
            /\ pg.first \subseteq newer
    ]_vars

\* a forward paging that started at the cursor of a message of the room took
\* more than one fetch and is over; a message was inserted after its first
\* fetch and returned, and two messages with one created_at lie on the two
\* sides of a page boundary
C28_Witness ==
    /\ pg.kind = "newer"
    /\ pg.phase = "done"
    /\ pg.fetches >= 2
    /\ \E m \in messages : m.room_id = pg.room /\ CursorOf(m) = pg.start
    /\ \E i \in 1..Len(pg.pages) : pg.pages[i] \notin pg.first
    /\ \E i \in 1..(Len(pg.pages) - 1) :
         /\ pg.pages[i].created_at = pg.pages[i + 1].created_at
         /\ i % pg.limit = 0

\* C30: a client that pages a search by cursor has, after every fetch, the
\* first part of the list obtained from the room's backward history (the
\* messages the room held at the first fetch, descending by (created_at, id))
\* by keeping the messages that match the query: the same order, each match
\* once, only messages of the requested room; next_cursor is present exactly
\* while matches remain.
C30_SearchPagesAreMatchingHistory ==
    [][(pg'.fetches # pg.fetches /\ pg'.kind = "search") =>
        LET Matches(m) == pg'.query # " " /\ m.content = pg'.query
            held == IF pg.phase = "idle" THEN {m \in messages : m.room_id = pg'.room}
                    ELSE pg.first
            history == SelectSeq(OrderDesc(held), Matches)
            got == pg'.pages
        IN  /\ Len(got) <= Len(history)
            /\ got = Take(history, Len(got))
            /\ \A i \in 1..Len(got) : got[i].room_id = pg'.room
            /\ \A i, j \in 1..Len(got) : i # j => got[i].id # got[j].id
            /\ (pg'.cursor # NoCursor) <=> (Len(got) < Len(history))
    ]_vars

\* a search that took more than one fetch is over; the room holds a message
\* that does not match, the other room holds one that does, and two matches
\* with one created_at lie on the two sides of a page boundary
C30_Witness ==
    /\ pg.kind = "search"
    /\ pg.phase = "done"
    /\ pg.fetches >= 2
    /\ \E m \in messages : m.room_id = pg.room /\ m.content # pg.query
    /\ \E m \in messages : m.room_id # pg.room /\ m.content = pg.query
    /\ \E i \in 1..(Len(pg.pages) - 1) :
         /\ pg.pages[i].created_at = pg.pages[i + 1].created_at
         /\ i % pg.limit = 0

\* C29: the window fetched around a target T with before and after holds the
\* at most `before` nearest older messages of the room, T, and the at most
\* `after` nearest newer ones, strictly ascending by (created_at, id), T once;
\* older_cursor is present exactly when older messages exist beyond the window
\* and newer_cursor exactly when newer ones do; backward pages from
\* older_cursor and newer pages from newer_cursor yield exactly the messages
\* outside the window on that side, none of the window and none left out,
\* also when before or after is 0.
C29_ContextWindowAndItsCursors ==
    cx.phase = "open" =>
        LET T == CHOOSE m \in cx.first : m.id = cx.target
            Before(a, b) == \/ a.created_at < b.created_at
                            \/ a.created_at = b.created_at /\ a.id < b.id
            older == {m \in cx.first : Before(m, T)}
            newer == {m \in cx.first : Before(T, m)}
            w == cx.messages
            inw == {w[i] : i \in 1..Len(w)}
            nb == IF cx.before < Cardinality(older) THEN cx.before ELSE Cardinality(older)
            na == IF cx.after < Cardinality(newer) THEN cx.after ELSE Cardinality(newer)
            paged == {pg.pages[i] : i \in 1..Len(pg.pages)}
        IN  /\ \E m \in cx.first : m.id = cx.target
            /\ Len(w) = nb + 1 + na
            /\ w[nb + 1] = T
            /\ inw \subseteq cx.first
            /\ \A i \in 1..(Len(w) - 1) : Before(w[i], w[i + 1])
            /\ \A m \in cx.first \ inw : Before(m, w[1]) \/ Before(w[Len(w)], m)
            /\ (cx.older_cursor # NoCursor) <=> (older \ inw # {})
            /\ (cx.newer_cursor # NoCursor) <=> (newer \ inw # {})
            /\ (pg.phase # "idle" /\ pg.kind = "older") =>
                  /\ pg.start = cx.older_cursor
                  /\ Len(pg.pages) <= Cardinality(older \ inw)
                  /\ pg.pages = Take(OrderDesc(older \ inw), Len(pg.pages))
                  /\ pg.phase = "done" => paged = older \ inw
            /\ (pg.phase # "idle" /\ pg.kind = "newer") =>
                  LET rest == {m \in messages : m.room_id = cx.room /\ Before(T, m)} \ inw IN
                  /\ pg.start = cx.newer_cursor
                  /\ Len(pg.pages) <= Cardinality(rest)
                  /\ pg.pages = Take(OrderAsc(rest), Len(pg.pages))
                  /\ pg.phase = "done" => (newer \ inw) \subseteq paged

\* a window fetched with before = 0 left older messages out and newer ones
\* too, and the backward pages from older_cursor, more than one, are over
C29_Witness ==
    /\ cx.phase = "open"
    /\ cx.before = 0
    /\ cx.newer_cursor # NoCursor
    /\ pg.kind = "older"
    /\ pg.phase = "done"
    /\ pg.fetches >= 2

\* ------------------------------------------------------------- properties of the cursor strings
\* C31: for every timestamp, with or without a fraction of a second, and every
\* positive message id, decode_cursor(encode_cursor(timestamp, id)) returns
\* exactly (timestamp, id).
C31_CursorRoundTrip ==
    (codec.call = "decode" /\ codec.id # NULL) =>
        /\ codec.out.ok
        /\ codec.out.created_at = codec.created_at
        /\ codec.out.id = codec.id

\* a cursor of a timestamp with microseconds was encoded and decoded
C31_Witness ==
    /\ codec.call = "decode"
    /\ codec.id # NULL
    /\ codec.created_at % 1000000 = 123456
    /\ codec.created_at > 1000000

\* C32: whatever string it is given, decode_cursor returns a (timestamp,
\* positive id) pair or raises ValueError and nothing else.
C32_DecodeRaisesOnlyValueError ==
    codec.call = "decode" =>
        \/ codec.out.ok /\ codec.out.id > 0
        \/ ~codec.out.ok /\ codec.out.raises = "ValueError"

\* C33: whatever cursor a request carries, also one minted for a message of
\* another room, a history, newer, search or context request returns only
\* messages of the requested room, and only to a requester who is a member of
\* it; a requester who is not a member of the (existing) room gets 403, and a
\* member who asks for the context of a message of another room gets 404.
C33_CursorGrantsNoAccess ==
    [][resp' # resp =>
        LET member == <<resp'.user, resp'.room>> \in DOMAIN user_room IN
        /\ \A i \in 1..Len(resp'.messages) :
              /\ resp'.messages[i].room_id = resp'.room
              /\ resp'.messages[i] \in messages
        /\ resp'.messages # <<>> => member /\ resp'.status = 200
        /\ (resp'.room \in Rooms /\ ~member) => resp'.status = 403
        /\ (resp'.kind = "context" /\ member /\
            ~\E m \in messages : m.id = resp'.target /\ m.room_id = resp'.room)
              => resp'.status = 404
    ]_vars

\* someone who is not a member of a room asked for its newer messages with the
\* cursor of one of its messages and got 403
C33_Witness ==
    /\ resp.kind = "newer"
    /\ resp.status = 403
    /\ \E m \in messages : m.room_id = resp.room /\ CursorOf(m) = resp.cursor
    /\ \E m \in messages : m.room_id # resp.room

\* ------------------------------------------------------------- replies to a dead socket
\* C34: a reply that cannot be sent to the originating connection does not
\* raise out of send_error: the handler that called it returns, the receive
\* loop goes on and the connection is still registered.
C34_FailedReplyDoesNotRaise ==
    [][\A c \in Conns :
          (RecvUnknown(c) \/ \E action \in Validated : RecvInvalid(c, action)) =>
              /\ pc'[c] = "recv"
              /\ c \in DOMAIN active_connections'
    ]_vars

\* ------------------------------------------------------------- subscribed, no longer a member
\* the connection is in the room's subscriber set and open, and its user has
\* no user_room row for the room
Lapsed(c, r) ==
    /\ IsSubscribed(room_subscriptions, c, r)
    /\ ~get_user_room(user_room, UserOf(c), r)
    /\ ~closed[c]

\* C35: for a connection still subscribed to room R whose user's membership
\* row has been removed, a typing frame is accepted without an error and
\* broadcast to the other subscribers; the broadcasts of others to R still
\* reach the connection; a send_message frame is answered by an error event
\* to the connection, and nothing is persisted, cached or broadcast.
C35_LapsedMemberTypesButCannotSend ==
    [][\A c \in Conns, r \in Rooms :
         Lapsed(c, r) =>
            /\ RecvTyping(c, r) =>
                  /\ last_error' = last_error
                  /\ pc'[c] = "bcast"
                  /\ bc'[c].room = r
                  /\ bc'[c].exclude = c
                  /\ cur'[c].event = "typing_indicator"
            /\ (pc[c] = "bcast" /\ cur[c].event = "typing_indicator" /\ pc'[c] # "bcast") =>
                  /\ last_bc'.by = c
                  /\ \A x \in last_bc'.snap \ {c} : last_bc'.delivered[x] = 1
            /\ \A d \in Conns \ {c} :
                  (pc[d] = "bcast" /\ bc[d].room = r /\ pc'[d] # "bcast") =>
                      /\ last_bc'.by = d
                      /\ last_bc'.delivered[c] = 1
            /\ SendFrame(c, r) =>
                  /\ last_error' = [to |-> c, action |-> "send_message", room |-> r]
                  /\ connVars' = connVars
                  /\ dbVars' = dbVars
                  /\ cacheVars' = cacheVars
      ]_vars

\* u2 has left room 1 and c2 is still subscribed: its send_message frame was
\* answered by an error, no message was ever stored, and the broadcast that
\* returned last was one of c1 that reached c2
C35_Witness ==
    /\ Lapsed("c2", 1)
    /\ last_error = [to |-> "c2", action |-> "send_message", room |-> 1]
    /\ messages = {}
    /\ last_bc.by = "c1"
    /\ last_bc.delivered["c2"] = 1

\* ------------------------------------------------------------- events of a subscribe
\* C36: handle_subscribe sends subscribed for room R to a connection, and
\* starts the user_joined broadcast to R's other subscribers, only when the
\* connection is in R's subscriber set at that moment; a subscribe that the
\* per-connection cap refused produces neither event.
C36_SubscribedOnlyWhenInSet ==
    [][\A c \in Conns :
          (SubscribeReply(c) /\ ~closed[c]) =>
              /\ IsSubscribed(room_subscriptions, c, cur[c].room)
              /\ cur[c].ok
    ]_vars

\* ------------------------------------------------------------- events of an unsubscribe
\* C37: an unsubscribe frame for a room the connection is not subscribed to
\* leaves the registry as it is, and handle_unsubscribe broadcasts user_left
\* to a room only when the connection was in the room's subscriber set
\* immediately before.
C37_UnsubscribeOfStrangerIsSilent ==
    [][\A c \in Conns :
          /\ \A r \in RoomIds :
                (RecvUnsubscribe(c, r) /\ ~IsSubscribed(room_subscriptions, c, r)) =>
                    /\ room_subscriptions' = room_subscriptions
                    /\ active_connections' = active_connections
          /\ (pc[c] = "unsub_reply" /\ pc'[c] = "bcast") => cur[c].ok
    ]_vars

\* ------------------------------------------------------------- a send_message never costs the connection
\* C38: a send_message frame of a room member with a content of 1..1000
\* characters, blanks only included, ends with the message stored and
\* broadcast or with an error event to the sender; no step of its handler
\* ends with the connection removed from the registry.
C38_ValidSendKeepsConnection ==
    [][\A c \in Conns :
          /\ \A content \in FrameContents \ {""} :
                (SendContent(c, 1, content) /\ get_user_room(user_room, UserOf(c), 1)) =>
                    \/ pc'[c] = "send_checked"
                    \/ pc'[c] = "recv" /\ last_error'.to = c
          /\ (pc[c] \in {"send_checked", "send_saved", "send_marked", "send_reset",
                         "send_incr"} /\ ~closed[c]) =>
                /\ pc'[c] # "done"
                /\ c \in DOMAIN active_connections'
    ]_vars

\* ------------------------------------------------------------- frames and the limiter's count
\* the number of frames the limiter has counted for the user in the window
\* that holds the instant t
CountAt(counts, user_id, t) ==
    IF user_id \notin DOMAIN counts \/ t - counts[user_id][1] >= WINDOW_SECONDS THEN 0
    ELSE counts[user_id][2]

\* C39: the limiter's count of a user goes up by exactly one with every
\* send_message frame the limiter admits, also when the frame is then
\* rejected for its payload, its room or the membership and stores nothing;
\* a frame the limiter rejects leaves the count as it is, and so does every
\* step that is not the arrival of a send_message frame (subscribe,
\* unsubscribe, typing and unknown frames among them).
C39_OnlyAdmittedSendsCount ==
    [][\A c \in Conns :
          LET u == UserOf(c)
              Arrives == \E r \in RoomIds, content \in FrameContents : SendContent(c, r, content)
          IN  /\ (Arrives /\ rate_log'[u].ok) =>
                    CountAt(message_counts', u, mono) = CountAt(message_counts, u, mono) + 1
              /\ (Arrives /\ ~rate_log'[u].ok) => message_counts' = message_counts
              /\ (/\ \/ \E r \in RoomIds : RecvSubscribe(c, r) \/ RecvUnsubscribe(c, r)
                                           \/ RecvTyping(c, r)
                     \/ RecvUnknown(c)
                     \/ \E action \in Validated : RecvInvalid(c, action))
                    => message_counts' = message_counts
       /\ (message_counts' # message_counts) =>
             \E ws \in Conns, r \in RoomIds, content \in FrameContents :
                SendContent(ws, r, content)
    ]_vars

\* the frame that arrived last was admitted by the limiter and counted, and it
\* was for a room the sender is no member of; nothing was ever stored
C39_Witness ==
    /\ "u2" \in DOMAIN rate_log
    /\ rate_log["u2"].ok
    /\ rate_log["u2"].room = 2
    /\ rate_log["u2"].admitted >= 2
    /\ CountAt(message_counts, "u2", mono) = rate_log["u2"].admitted
    /\ messages = {}
    /\ pc["c2"] = "recv"

\* ------------------------------------------------------------- the order of new_message events
\* the step hands the new_message event of handler a to the transport x
Hands(a, x) ==
    /\ bc'[a].active
    /\ cur'[a].event = "new_message"
    /\ bc'[a].delivered[x] > bc[a].delivered[x]

\* handler b is inside the broadcast of its new_message event to the room and
\* has handed it to the transport x already
Handed(b, room_id, x) ==
    /\ bc[b].active
    /\ cur[b].event = "new_message"
    /\ cur[b].room = room_id
    /\ bc[b].delivered[x] > 0

\* C40: when two connections send to the same room concurrently, each
\* subscriber receives the two new_message events in the order of the
\* persisted message ids (and so all subscribers in the same order): a
\* new_message event is never handed to a subscriber that has already been
\* handed the event of a message of the room with a larger id.
C40_EventsArriveInIdOrder ==
    [][\A a \in Conns, b \in Conns, x \in Conns :
          (a # b /\ Hands(a, x) /\ Handed(b, cur'[a].room, x)) => cur[b].msg < cur'[a].msg
    ]_vars

====
